---- MODULE Spec2Model ----
(***************************************************************************)
(* Auxilia: the design-token pipeline (TokenParsers, TokenGenerators and   *)
(* the DesignTokenManager that drives them), the OKLCH converter with its  *)
(* colour history, the palette generator with its harmonies and ramps, and *)
(* the accessibility checker.  Text is modelled by TLA+ strings, read      *)
(* character by character as the JavaScript code reads it.                 *)
(***************************************************************************)
EXTENDS Integers, Sequences, FiniteSets, TLC

VARIABLES
    pc,                \* position of the function harness: "start" ... "done"
    arg,               \* the argument handed to the function under test
    ret,               \* what the function returned (Pending before the call)
    generated,         \* round trip: the text generated from ret
    reparsed,          \* round trip: the tokens parsed from that text
    tokenInput,        \* elements.token_input.value
    parsedTokens,      \* DesignTokenManager.parsedTokens
    currentFormat,     \* DesignTokenManager.currentFormat
    validationStatus,  \* status class and message of elements.validation_status
    tokenTree,         \* what elements.token_tree shows
    outputCode,        \* elements.output_code.textContent
    exportDisabled,    \* elements.export_all_btn.disabled
    download,          \* the files the last handler handed to downloadExport
    lastOp,            \* the handler that ran last
    history,           \* ColorHistory.history
    historyList,       \* what the element 'history-list' holds
    storage,           \* localStorage item 'oklch-color-history'
    saved,             \* the last saveHistory call wrote the item
    storageFull,       \* the origin's storage quota is used up
    fields,            \* value of the converter's hex, L, C and H inputs
    clock,             \* Date.now()
    steps,             \* handler runs since the first colours were entered
    event,             \* the converter handler that ran last, and on what
    otherTab,          \* the converter page open in another tab, if any
    baseColor,         \* PaletteGenerator: elements.baseColorInput.value
    harmonyType,       \* elements.harmonySelect.value
    currentPalette,    \* PaletteGenerator.currentPalette
    exportCode,        \* elements.exportCode.textContent
    paletteEvent       \* how the last generatePalette call ended

callVars == <<pc, arg, ret, generated, reparsed>>

managerVars ==
    <<tokenInput, parsedTokens, currentFormat, validationStatus, tokenTree,
      outputCode, exportDisabled, download, lastOp>>

converterVars ==
    <<history, historyList, storage, saved, storageFull, fields, clock, steps,
      event, otherTab>>

\* everything but the function harness
paletteVars == <<baseColor, harmonyType, currentPalette, exportCode, paletteEvent>>

pageVars == <<managerVars, converterVars, paletteVars>>

vars ==
    <<pc, arg, ret, generated, reparsed, tokenInput, parsedTokens,
      currentFormat, validationStatus, tokenTree, outputCode, exportDisabled,
      download, lastOp, history, historyList, storage, saved, storageFull,
      fields, clock, steps, event, otherTab, baseColor, harmonyType,
      currentPalette, exportCode, paletteEvent>>

Pending == [k |-> "pending"]

Status(status, message) == [status |-> status, message |-> message]

\* a function called on its own: no manager is constructed and no page is
\* loaded, so the manager's part of the state is empty and stays so
NoManager ==
    /\ tokenInput = ""
    /\ parsedTokens = <<>>
    /\ currentFormat = "css"
    /\ validationStatus = Pending
    /\ tokenTree = Pending
    /\ outputCode = ""
    /\ exportDisabled = TRUE
    /\ download = Pending
    /\ lastOp = "none"

\* the converter page is not loaded either
NoConverter ==
    /\ history = <<>>
    /\ historyList = Pending
    /\ storage = Pending
    /\ saved = TRUE
    /\ storageFull = FALSE
    /\ fields = Pending
    /\ clock = 0
    /\ steps = 0
    /\ event = Pending
    /\ otherTab = Pending

\* the palette page is not loaded
NoPalette ==
    /\ baseColor = ""
    /\ harmonyType = ""
    /\ currentPalette = <<>>
    /\ exportCode = ""
    /\ paletteEvent = Pending

(***************************************************************************)
(* Text: the String methods the source calls.                              *)
(***************************************************************************)
Ch(s, i) == SubSeq(s, i, i)

StartsWith(s, p) == Len(p) <= Len(s) /\ SubSeq(s, 1, Len(p)) = p

EndsWith(s, p) == Len(p) <= Len(s) /\ SubSeq(s, Len(s) - Len(p) + 1, Len(s)) = p

Includes(s, p) == \E i \in 1..(Len(s) - Len(p) + 1) : SubSeq(s, i, i + Len(p) - 1) = p

Digit == {"0", "1", "2", "3", "4", "5", "6", "7", "8", "9"}

HexLower == Digit \cup {"a", "b", "c", "d", "e", "f"}

UpperChars == "ABCDEFGHIJKLMNOPQRSTUVWXYZ"

LowerChars == "abcdefghijklmnopqrstuvwxyz"

LowerMap ==
    [c \in {Ch(UpperChars, i) : i \in 1..26} |->
        Ch(LowerChars, CHOOSE i \in 1..26 : Ch(UpperChars, i) = c)]

RECURSIVE ToLowerCase(_)
ToLowerCase(s) ==
    IF s = "" THEN ""
    ELSE LET c == Ch(s, 1)
         IN  (IF c \in DOMAIN LowerMap THEN LowerMap[c] ELSE c)
                 \o ToLowerCase(SubSeq(s, 2, Len(s)))

AllIn(s, set) == \A i \in 1..Len(s) : Ch(s, i) \in set

(***************************************************************************)
(* TokenParsers.inferTokenType                                             *)
(***************************************************************************)
\* /^#[0-9a-f]{3,8}$/i
MatchesHexColor(s) ==
    /\ StartsWith(s, "#")
    /\ Len(s) - 1 >= 3
    /\ Len(s) - 1 <= 8
    /\ AllIn(SubSeq(s, 2, Len(s)), HexLower)

\* /\d+(px|rem|em|%)$/
MatchesDimension(s) ==
    \E u \in {"px", "rem", "em", "%"} :
        /\ EndsWith(s, u)
        /\ Len(s) > Len(u)
        /\ Ch(s, Len(s) - Len(u)) \in Digit

\* /^\d+$/
MatchesInteger(s) == s # "" /\ AllIn(s, Digit)

inferTokenType(value) ==
    LET valueStr == ToLowerCase(value)
    IN  IF \/ MatchesHexColor(valueStr)
           \/ StartsWith(valueStr, "rgb")
           \/ StartsWith(valueStr, "hsl")
           \/ Includes(valueStr, "color")
        THEN "color"
        ELSE IF MatchesDimension(valueStr) THEN "dimension"
        ELSE IF MatchesInteger(valueStr) THEN "number"
        ELSE IF Includes(valueStr, "font") \/ Includes(valueStr, "family")
        THEN "fontFamily"
        ELSE "string"

(***************************************************************************)
(* Values handed to inferTokenType: `#` runs of every length up to         *)
(* MaxHexLen, and every concatenation of at most MaxWords lexical pieces.  *)
(***************************************************************************)
MaxHexLen == 9

MaxWords == 3

RECURSIVE Repeat(_, _)
Repeat(s, n) == IF n = 0 THEN "" ELSE s \o Repeat(s, n - 1)

HexRuns ==
    {"#" \o SubSeq(Repeat(d, n), 1, n) \o t :
        d \in {"a", "0", "F", "1b", "g"}, n \in 0..MaxHexLen, t \in {"", "px", " "}}

InferWords ==
    {"#", "1", "a", "F", "g", "px", "rem", "em", "%", "rgb", "hsl",
     "Color", "font", "family", " ", ".5"}

RECURSIVE Concats(_, _)
Concats(words, n) ==
    IF n = 0 THEN {""}
    ELSE LET shorter == Concats(words, n - 1)
         IN  shorter \cup {s \o w : s \in shorter, w \in words}

InferValues == HexRuns \cup Concats(InferWords, MaxWords)

InitInfer ==
    /\ pc = "start"
    /\ arg \in InferValues
    /\ ret = Pending
    /\ generated = Pending
    /\ reparsed = Pending
    /\ NoManager
    /\ NoConverter
    /\ NoPalette

InferType ==
    /\ pc = "start"
    /\ ret' = [k |-> "type", type |-> inferTokenType(arg)]
    /\ pc' = "done"
    /\ UNCHANGED <<arg, generated, reparsed, pageVars>>

NextInfer == InferType

SpecInfer == InitInfer /\ [][NextInfer]_vars

\* The rule list as C3 words it, read on the lower-cased text: the first rule
\* asks for `#` and exactly 3, 4, 6 or 8 hex digits.
TypeAsClaimed(value) ==
    LET v == ToLowerCase(value)
    IN  IF \/ /\ StartsWith(v, "#")
              /\ Len(v) - 1 \in {3, 4, 6, 8}
              /\ AllIn(SubSeq(v, 2, Len(v)), HexLower)
           \/ StartsWith(v, "rgb")
           \/ StartsWith(v, "hsl")
           \/ Includes(v, "color")
        THEN "color"
        ELSE IF \E u \in {"px", "rem", "em", "%"} :
                    /\ EndsWith(v, u)
                    /\ Len(v) > Len(u)
                    /\ Ch(v, Len(v) - Len(u)) \in Digit
        THEN "dimension"
        ELSE IF v # "" /\ AllIn(v, Digit) THEN "number"
        ELSE IF Includes(v, "font") \/ Includes(v, "family") THEN "fontFamily"
        ELSE "string"

\* C3: inferTokenType returns the type of the first matching rule in the order
\* color (`#` and exactly 3, 4, 6 or 8 hex digits, or a leading rgb/hsl, or
\* "color" inside), dimension, number, fontFamily, string.
C3_FirstRuleAsClaimed ==
    (pc = "done" /\ ret.k = "type") => ret.type = TypeAsClaimed(arg)

(***************************************************************************)
(* Numbers in text: parseFloat, Math.round and number-to-string, as        *)
(* convertDimensionForAndroid uses them.  A parsed number is the exact     *)
(* decimal sign * num / 10^scale.                                          *)
(***************************************************************************)
WhiteSpace == {" ", "\n", "\t", "\r"}

DigitValue(c) == CHOOSE d \in 0..9 : Ch("0123456789", d + 1) = c

RECURSIVE ToNat(_)
ToNat(s) ==
    IF s = "" THEN 0
    ELSE 10 * ToNat(SubSeq(s, 1, Len(s) - 1)) + DigitValue(Ch(s, Len(s)))

RECURSIVE NatToString(_)
NatToString(n) ==
    IF n < 10 THEN Ch("0123456789", n + 1)
    ELSE NatToString(n \div 10) \o Ch("0123456789", (n % 10) + 1)

NumberToString(n) == IF n < 0 THEN "-" \o NatToString(-n) ELSE NatToString(n)

RECURSIVE Pow10(_)
Pow10(n) == IF n = 0 THEN 1 ELSE 10 * Pow10(n - 1)

\* length of the longest run of characters of `set` that starts at index i
RECURSIVE RunLength(_, _, _)
RunLength(s, i, set) ==
    IF i <= Len(s) /\ Ch(s, i) \in set THEN 1 + RunLength(s, i + 1, set) ELSE 0

NaN == [nan |-> TRUE]

\* a sign at index i
SignAt(s, i) == i <= Len(s) /\ Ch(s, i) \in {"+", "-"}

\* a minus sign at index i
MinusAt(s, i) == i <= Len(s) /\ Ch(s, i) = "-"

\* a decimal point at index i
PointAt(s, i) == i <= Len(s) /\ Ch(s, i) = "."

\* the digits of the mantissa, the decimal point left out: intLen digits from
\* index i0 and fracLen digits after the point
Mantissa(s, i0, intLen, fracLen) ==
    SubSeq(s, i0, i0 + intLen - 1)
        \o SubSeq(s, i0 + intLen + 1, i0 + intLen + fracLen)

\* the exponent part that starts at index e, 0 when there is none: the letter,
\* a sign, then digits
ExponentAt(s, e) ==
    IF e <= Len(s) /\ Ch(s, e) \in {"e", "E"}
    THEN IF SignAt(s, e + 1)
         THEN (IF MinusAt(s, e + 1) THEN -1 ELSE 1)
                  * ToNat(SubSeq(s, e + 2, e + 1 + RunLength(s, e + 2, Digit)))
         ELSE ToNat(SubSeq(s, e + 1, e + RunLength(s, e + 1, Digit)))
    ELSE 0

\* the number whose mantissa has intLen digits from index i0, then a point
\* and fracLen digits (fracLen is 0 when there is no point)
ReadNumber(s, negative, i0, intLen, fracLen) ==
    IF intLen + fracLen = 0 THEN NaN
    ELSE [nan |-> FALSE,
          sign |-> IF negative THEN -1 ELSE 1,
          num |-> ToNat(Mantissa(s, i0, intLen, fracLen)),
          scale |-> fracLen
              - ExponentAt(s, i0 + intLen
                                 + (IF PointAt(s, i0 + intLen) THEN fracLen + 1 ELSE 0))]

\* the digits after a decimal point at index dot
FractionLength(s, dot) ==
    IF PointAt(s, dot) THEN RunLength(s, dot + 1, Digit) ELSE 0

ReadMantissa(s, negative, i0, intLen) ==
    ReadNumber(s, negative, i0, intLen, FractionLength(s, i0 + intLen))

ReadSigned(s, start) ==
    ReadMantissa(s, MinusAt(s, start),
                 IF SignAt(s, start) THEN start + 1 ELSE start,
                 RunLength(s, IF SignAt(s, start) THEN start + 1 ELSE start, Digit))

parseFloat(s) == ReadSigned(s, 1 + RunLength(s, 1, WhiteSpace))

\* Math.round(x * k): the integer nearest to x * k, a tie going up
RoundTimes(x, k) ==
    LET top == x.sign * x.num * k * (IF x.scale < 0 THEN Pow10(-x.scale) ELSE 1)
        den == IF x.scale > 0 THEN Pow10(x.scale) ELSE 1
    IN  (2 * top + den) \div (2 * den)

(***************************************************************************)
(* TokenGenerators.convertDimensionForAndroid                              *)
(***************************************************************************)
RemRatio == 16

\* `${Math.round(remValue * 16)}dp`
RemToDp(remValue) ==
    IF remValue.nan THEN "NaNdp"
    ELSE NumberToString(RoundTimes(remValue, RemRatio)) \o "dp"

\* the same conversion with the rem test made before the px test
convertDimensionRemFirst(value) ==
    IF Includes(value, "rem") THEN RemToDp(parseFloat(value))
    ELSE IF Includes(value, "px") THEN value
    ELSE IF MatchesInteger(value) THEN value \o "dp"
    ELSE value

convertDimensionForAndroid(value) ==
    IF Includes(value, "px") THEN value
    ELSE IF Includes(value, "rem") THEN RemToDp(parseFloat(value))
    ELSE IF MatchesInteger(value) THEN value \o "dp"
    ELSE value

(***************************************************************************)
(* Values handed to convertDimensionForAndroid: every concatenation of at  *)
(* most MaxDimWords pieces of numbers, units and separators.               *)
(***************************************************************************)
MaxDimWords == 4

DimWords == {"1", "5", "0", ".", "-", " ", "px", "rem", "em", "%"}

\* numbers written with an exponent, which parseFloat reads too
ExponentValues ==
    {m \o x \o u :
        m \in {"1", "1.5", "-2"},
        x \in {"e1", "e-1", "E+2", "e", "e+"},
        u \in {"rem", "em", "px", ""}}

DimValues == Concats(DimWords, MaxDimWords) \cup ExponentValues

InitConvert ==
    /\ pc = "start"
    /\ arg \in DimValues
    /\ ret = Pending
    /\ generated = Pending
    /\ reparsed = Pending
    /\ NoManager
    /\ NoConverter
    /\ NoPalette

ConvertDimension ==
    /\ pc = "start"
    /\ ret' = [k |-> "text", text |-> convertDimensionForAndroid(arg)]
    /\ pc' = "done"
    /\ UNCHANGED <<arg, generated, reparsed, pageVars>>

NextConvert == ConvertDimension

SpecConvert == InitConvert /\ [][NextConvert]_vars

\* the text is n followed by `dp`, n the integer nearest to 16 times the number
\* x (sign * num / 10^scale) with a tie going up: n <= 16x + 1/2 < n + 1
IsRoundedDp(text, x) ==
    /\ EndsWith(text, "dp")
    /\ LET body == SubSeq(text, 1, Len(text) - 2)
           neg == StartsWith(body, "-")
           mag == IF neg THEN SubSeq(body, 2, Len(body)) ELSE body
           n == IF neg THEN -ToNat(mag) ELSE ToNat(mag)
           top == x.sign * x.num * 16 * (IF x.scale < 0 THEN Pow10(-x.scale) ELSE 1)
           den == IF x.scale > 0 THEN Pow10(x.scale) ELSE 1
       IN  /\ mag # ""
           /\ AllIn(mag, Digit)
           /\ (Len(mag) > 1 => Ch(mag, 1) # "0")
           /\ (neg => n # 0)
           /\ 2 * n * den <= 2 * top + den
           /\ 2 * top + den < 2 * (n + 1) * den

RemAsDp(text, value) ==
    LET x == parseFloat(value)
    IN  IF x.nan THEN text = "NaNdp" ELSE IsRoundedDp(text, x)

\* C10 as stated: a value ending in `rem` becomes round(number * 16)
\* and `dp`, a value of digits only gets `dp` appended, a value ending in `px`
\* and every other value come back unchanged.
C10_AsClaimed ==
    (pc = "done" /\ ret.k = "text") =>
        LET endsRem == EndsWith(arg, "rem")
        IN  /\ endsRem => RemAsDp(ret.text, arg)
            /\ MatchesInteger(arg) => ret.text = arg \o "dp"
            /\ (~endsRem /\ ~MatchesInteger(arg)) => ret.text = arg

\* C10 amended: a value with `px` anywhere in it comes back unchanged; failing
\* that, a value with `rem` anywhere in it becomes round(parseFloat(value) * 16)
\* and `dp` (NaNdp when it starts with no number); failing that, digits only
\* get `dp` appended; every other value comes back unchanged.
C10_SubstringOrder ==
    (pc = "done" /\ ret.k = "text") =>
        LET px == Includes(arg, "px")
            rem == ~px /\ Includes(arg, "rem")
            int == ~px /\ ~rem /\ MatchesInteger(arg)
        IN  /\ px => ret.text = arg
            /\ rem => RemAsDp(ret.text, arg)
            /\ int => ret.text = arg \o "dp"
            /\ (~px /\ ~rem /\ ~int) => ret.text = arg

\* a state where each case of C10 has happened
C10_Witness ==
    /\ pc = "done"
    /\ ret.k = "text"
    /\ arg = "1.5rem"
    /\ ret.text = "24dp"

(***************************************************************************)
(* JavaScript values and objects.  A value is a string, an object, an      *)
(* array, null or undefined; an object is the sequence of its own          *)
(* properties <<key, value>> in the order Object.entries lists them:       *)
(* array-index keys first, ascending, then the other keys in insertion     *)
(* order.  An array holds its elements under the keys "0", "1", ...        *)
(***************************************************************************)
JString(s) == [t |-> "string", s |-> s]

JObject(m) == [t |-> "object", m |-> m]

JArray(m) == [t |-> "array", m |-> m]

JNull == [t |-> "null"]

Undefined == [t |-> "undefined"]

IsArrayIndex(key) ==
    /\ key # ""
    /\ Len(key) <= 9
    /\ AllIn(key, Digit)
    /\ (Len(key) > 1 => Ch(key, 1) # "0")

HasKey(m, key) == \E i \in 1..Len(m) : m[i][1] = key

Get(m, key) ==
    IF HasKey(m, key) THEN m[CHOOSE i \in 1..Len(m) : m[i][1] = key][2] ELSE Undefined

\* obj[key] = value
Put(m, key, value) ==
    IF HasKey(m, key)
    THEN [i \in 1..Len(m) |-> IF m[i][1] = key THEN <<key, value>> ELSE m[i]]
    ELSE IF IsArrayIndex(key)
    THEN LET before == {i \in 1..Len(m) :
                           IsArrayIndex(m[i][1]) /\ ToNat(m[i][1]) < ToNat(key)}
             n == Cardinality(before)
         IN  SubSeq(m, 1, n) \o <<<<key, value>>>> \o SubSeq(m, n + 1, Len(m))
    ELSE Append(m, <<key, value>>)

Keys(m) == [i \in 1..Len(m) |-> m[i][1]]

(***************************************************************************)
(* More String methods: trim, split, replace with a global pattern.        *)
(***************************************************************************)
RECURSIVE TrimStart(_)
TrimStart(s) ==
    IF s # "" /\ Ch(s, 1) \in WhiteSpace THEN TrimStart(SubSeq(s, 2, Len(s))) ELSE s

RECURSIVE TrimEnd(_)
TrimEnd(s) ==
    IF s # "" /\ Ch(s, Len(s)) \in WhiteSpace
    THEN TrimEnd(SubSeq(s, 1, Len(s) - 1)) ELSE s

Trim(s) == TrimEnd(TrimStart(s))

\* s.replace(/c/g, by) for a one-character pattern c
RECURSIVE ReplaceAll(_, _, _)
ReplaceAll(s, c, by) ==
    IF s = "" THEN ""
    ELSE (IF Ch(s, 1) = c THEN by ELSE Ch(s, 1)) \o ReplaceAll(SubSeq(s, 2, Len(s)), c, by)

\* index of the first c at or after index i, 0 when there is none
RECURSIVE IndexFrom(_, _, _)
IndexFrom(s, c, i) ==
    IF i > Len(s) THEN 0
    ELSE IF Ch(s, i) = c THEN i
    ELSE IndexFrom(s, c, i + 1)

\* s.split(c) for a one-character separator c
RECURSIVE Split(_, _)
Split(s, c) ==
    LET i == IndexFrom(s, c, 1)
    IN  IF i = 0 THEN <<s>>
        ELSE <<SubSeq(s, 1, i - 1)>> \o Split(SubSeq(s, i + 1, Len(s)), c)

RECURSIVE Join(_, _)
Join(parts, sep) ==
    IF Len(parts) = 0 THEN ""
    ELSE IF Len(parts) = 1 THEN parts[1]
    ELSE parts[1] \o sep \o Join(Tail(parts), sep)

(***************************************************************************)
(* TokenParsers.parseCSS and parseSCSS: the declarations the global        *)
(* pattern /MARK([^:]+):\s*([^;]+);/g finds, one exec after the other.     *)
(***************************************************************************)
NoMatch == [found |-> FALSE]

\* The match that starts at index i, if any.  [^:]+ takes every character up
\* to the next colon and \s*([^;]+) every character up to the next semicolon;
\* both need one character at least, and the colon and the semicolon.
MatchAt(text, mark, i) ==
    LET nameFrom == i + Len(mark)
        colon == IndexFrom(text, ":", nameFrom)
        semi == IF colon = 0 THEN 0 ELSE IndexFrom(text, ";", colon + 1)
    IN  IF /\ nameFrom - 1 <= Len(text)
           /\ SubSeq(text, i, nameFrom - 1) = mark
           /\ colon > nameFrom
           /\ semi > colon + 1
        THEN [found |-> TRUE,
              name |-> SubSeq(text, nameFrom, colon - 1),
              value |-> SubSeq(text, colon + 1, semi - 1),
              lastIndex |-> semi + 1]
        ELSE NoMatch

\* regex.exec(text) with the search starting at index i
RECURSIVE Exec(_, _, _)
Exec(text, mark, i) ==
    IF i > Len(text) THEN NoMatch
    ELSE LET m == MatchAt(text, mark, i)
         IN  IF m.found THEN m ELSE Exec(text, mark, i + 1)

Token(value, type, path) == [value |-> value, type |-> type, path |-> path]

RECURSIVE ParseDeclarations(_, _, _, _)
ParseDeclarations(text, mark, i, tokens) ==
    LET match == Exec(text, mark, i)
    IN  IF ~match.found THEN tokens
        ELSE LET name == Trim(match.name)
                 value == Trim(match.value)
             IN  ParseDeclarations(text, mark, match.lastIndex,
                     Put(tokens, name,
                         Token(JString(value), JString(inferTokenType(value)),
                               Split(name, "-"))))

parseCSS(text) == ParseDeclarations(text, "--", 1, <<>>)

parseSCSS(text) == ParseDeclarations(text, "$", 1, <<>>)

(***************************************************************************)
(* JSON.parse, for texts made of objects, arrays, strings without escapes  *)
(* and null (the model's inputs hold no number, no boolean, no backslash). *)
(* A parse step yields the value read and the index after it, or fails.    *)
(***************************************************************************)
Failed == [ok |-> FALSE]

Read(value, next) == [ok |-> TRUE, value |-> value, next |-> next]

SkipWhiteSpace(text, i) == i + RunLength(text, i, WhiteSpace)

At(text, i, c) == i <= Len(text) /\ Ch(text, i) = c

ParseString(text, i) ==
    LET close == IndexFrom(text, "\"", i + 1)
        body == SubSeq(text, i + 1, close - 1)
    IN  IF /\ At(text, i, "\"")
           /\ close > 0
           /\ \A j \in 1..Len(body) : Ch(body, j) \notin {"\\", "\n", "\t", "\r"}
        THEN Read(body, close + 1)
        ELSE Failed

RECURSIVE ParseValue(_, _)
RECURSIVE ParseMembers(_, _, _)
RECURSIVE ParseElements(_, _, _)

\* the members after `{` or after a comma; i is at the key
ParseMembers(text, i, m) ==
    LET key == ParseString(text, i)
        colon == IF key.ok THEN SkipWhiteSpace(text, key.next) ELSE 0
        val == IF key.ok /\ At(text, colon, ":")
               THEN ParseValue(text, colon + 1) ELSE Failed
        after == IF val.ok THEN SkipWhiteSpace(text, val.next) ELSE 0
        sofar == IF val.ok THEN Put(m, key.value, val.value) ELSE m
    IN  IF ~val.ok THEN Failed
        ELSE IF At(text, after, "}") THEN Read(JObject(sofar), after + 1)
        ELSE IF At(text, after, ",")
        THEN ParseMembers(text, SkipWhiteSpace(text, after + 1), sofar)
        ELSE Failed

\* the elements after `[` or after a comma
ParseElements(text, i, m) ==
    LET val == ParseValue(text, i)
        after == IF val.ok THEN SkipWhiteSpace(text, val.next) ELSE 0
        sofar == IF val.ok THEN Append(m, <<NatToString(Len(m)), val.value>>) ELSE m
    IN  IF ~val.ok THEN Failed
        ELSE IF At(text, after, "]") THEN Read(JArray(sofar), after + 1)
        ELSE IF At(text, after, ",") THEN ParseElements(text, after + 1, sofar)
        ELSE Failed

ParseValue(text, i) ==
    LET j == SkipWhiteSpace(text, i)
        k == SkipWhiteSpace(text, j + 1)
    IN  IF At(text, j, "{")
        THEN IF At(text, k, "}") THEN Read(JObject(<<>>), k + 1)
             ELSE ParseMembers(text, k, <<>>)
        ELSE IF At(text, j, "[")
        THEN IF At(text, k, "]") THEN Read(JArray(<<>>), k + 1)
             ELSE ParseElements(text, j + 1, <<>>)
        ELSE IF At(text, j, "\"")
        THEN LET str == ParseString(text, j)
             IN  IF str.ok THEN Read(JString(str.value), str.next) ELSE Failed
        ELSE IF j + 3 <= Len(text) /\ SubSeq(text, j, j + 3) = "null"
        THEN Read(JNull, j + 4)
        ELSE Failed

\* JSON.parse(text): the value, or Failed for the SyntaxError it throws
JSONParse(text) ==
    LET val == ParseValue(text, 1)
    IN  IF val.ok /\ SkipWhiteSpace(text, val.next) = Len(text) + 1 THEN val ELSE Failed

(***************************************************************************)
(* TokenParsers.flattenTokens, parseJSON and parseInput.  A call either    *)
(* returns a token set or throws; Thrown carries the Error's message.      *)
(***************************************************************************)
IsObject(v) == v.t \in {"object", "array"}

Returned(tokens) == [k |-> "tokens", tokens |-> tokens]

Thrown(message) == [k |-> "error", message |-> message]

RECURSIVE flattenTokens(_, _, _)
RECURSIVE FlattenEntries(_, _, _, _)

\* the loop over Object.entries(obj), from entry i on
FlattenEntries(m, i, path, result) ==
    IF i > Len(m) THEN result
    ELSE LET key == m[i][1]
             value == m[i][2]
             currentPath == Append(path, key)
         IN  IF IsObject(value) /\ HasKey(value.m, "value")
             THEN FlattenEntries(m, i + 1, path,
                      Put(result, Join(currentPath, "."),
                          Token(Get(value.m, "value"), Get(value.m, "type"),
                                currentPath)))
             ELSE IF IsObject(value)
             THEN FlattenEntries(m, i + 1, path,
                      flattenTokens(value, currentPath, result))
             ELSE FlattenEntries(m, i + 1, path, result)

\* a flattening that forgets the ancestry of the object it is given
flattenTokensWithoutPath(obj, path, result) ==
    FlattenEntries(obj.m, 1, <<>>, result)

flattenTokens(obj, path, result) == FlattenEntries(obj.m, 1, path, result)

parseJSON(text) ==
    LET data == JSONParse(text)
    IN  IF data.ok /\ IsObject(data.value)
        THEN Returned(flattenTokens(data.value, <<>>, <<>>))
        ELSE Thrown("Invalid JSON format")

\* a detection that tests for "--" before it tests for "{"
parseInputCssFirst(input) ==
    IF Includes(input, "--") THEN Returned(parseCSS(input))
    ELSE IF StartsWith(input, "{") THEN parseJSON(input)
    ELSE IF Includes(input, "$") THEN Returned(parseSCSS(input))
    ELSE Thrown("Unrecognized format")

parseInput(input) ==
    IF StartsWith(input, "{") THEN parseJSON(input)
    ELSE IF Includes(input, "--") THEN Returned(parseCSS(input))
    ELSE IF Includes(input, "$") THEN Returned(parseSCSS(input))
    ELSE Thrown("Unrecognized format")

(***************************************************************************)
(* Values as text: template literals (`${value}`) and JSON.stringify with  *)
(* an indent of two spaces.                                                *)
(***************************************************************************)
RECURSIVE ToText(_)
RECURSIVE JoinElements(_, _)

\* Array.prototype.join(","): null and undefined elements give nothing
JoinElements(m, i) ==
    IF i > Len(m) THEN ""
    ELSE (IF i > 1 THEN "," ELSE "")
             \o (IF m[i][2].t \in {"null", "undefined"} THEN "" ELSE ToText(m[i][2]))
             \o JoinElements(m, i + 1)

ToText(v) ==
    CASE v.t = "string" -> v.s
      [] v.t = "null" -> "null"
      [] v.t = "undefined" -> "undefined"
      [] v.t = "object" -> "[object Object]"
      [] v.t = "array" -> JoinElements(v.m, 1)

RECURSIVE Escape(_)
Escape(s) ==
    IF s = "" THEN ""
    ELSE LET c == Ch(s, 1)
         IN  (CASE c = "\"" -> "\\\""
                [] c = "\\" -> "\\\\"
                [] c = "\n" -> "\\n"
                [] c = "\t" -> "\\t"
                [] c = "\r" -> "\\r"
                [] OTHER -> c) \o Escape(SubSeq(s, 2, Len(s)))

Quote(s) == "\"" \o Escape(s) \o "\""

RECURSIVE Stringify(_, _)
RECURSIVE StringifyMembers(_, _, _, _)

\* the members from i on, each on its own line; an undefined member of an
\* object is left out
StringifyMembers(v, i, indent, first) ==
    IF i > Len(v.m) THEN ""
    ELSE IF v.t = "object" /\ v.m[i][2].t = "undefined"
    THEN StringifyMembers(v, i + 1, indent, first)
    ELSE (IF first THEN "" ELSE ",") \o "\n" \o indent \o "  "
             \o (IF v.t = "object" THEN Quote(v.m[i][1]) \o ": " ELSE "")
             \o Stringify(v.m[i][2], indent \o "  ")
             \o StringifyMembers(v, i + 1, indent, FALSE)

Stringify(v, indent) ==
    CASE v.t = "string" -> Quote(v.s)
      [] v.t \in {"null", "undefined"} -> "null"
      [] OTHER ->
           LET inner == StringifyMembers(v, 1, indent, TRUE)
               open == IF v.t = "object" THEN "{" ELSE "["
               close == IF v.t = "object" THEN "}" ELSE "]"
           IN  IF inner = "" THEN open \o close
               ELSE open \o inner \o "\n" \o indent \o close

(***************************************************************************)
(* TokenGenerators: the seven generators, generateTailwindVariable and     *)
(* generate.  tokens is the sequence of <<name, token>> entries.           *)
(***************************************************************************)
\* output += line, once per entry of Object.entries(tokens)
Concat(lines) == Join(lines, "")

\* a declaration line that is not closed by a semicolon
CssLineWithoutSemicolon(name, token) ==
    "  " \o "--" \o ReplaceAll(name, ".", "-") \o ": " \o ToText(token.value) \o "\n"

CssLine(name, token) ==
    "  " \o "--" \o ReplaceAll(name, ".", "-") \o ": " \o ToText(token.value) \o ";\n"

GenerateCss(tokens) ==
    ":root {\n"
        \o Concat([i \in 1..Len(tokens) |-> CssLine(tokens[i][1], tokens[i][2])])
        \o "}"

ScssLine(name, token) ==
    "$" \o ReplaceAll(name, ".", "-") \o ": " \o ToText(token.value) \o ";\n"

GenerateScss(tokens) ==
    "// Design Tokens\n\n"
        \o Concat([i \in 1..Len(tokens) |-> ScssLine(tokens[i][1], tokens[i][2])])

RECURSIVE JsObject(_, _, _)
\* the object the js generator fills: jsObject[jsName] = token.value
JsObject(tokens, i, jsObject) ==
    IF i > Len(tokens) THEN jsObject
    ELSE JsObject(tokens, i + 1,
             Put(jsObject, ReplaceAll(tokens[i][1], ".", "_"), tokens[i][2].value))

GenerateJs(tokens) ==
    "export const tokens = " \o Stringify(JObject(JsObject(tokens, 1, <<>>)), "") \o ";"

RECURSIVE JsonTokens(_, _, _)
JsonTokens(tokens, i, jsonTokens) ==
    IF i > Len(tokens) THEN jsonTokens
    ELSE JsonTokens(tokens, i + 1,
             Put(jsonTokens, tokens[i][1],
                 JObject(<<<<"value", tokens[i][2].value>>,
                           <<"type", tokens[i][2].type>>>>)))

GenerateJson(tokens) == Stringify(JObject(JsonTokens(tokens, 1, <<>>)), "")

Last(parts) == parts[Len(parts)]

generateTailwindVariable(name, token) ==
    LET parts == Split(name, ".")
        lowerName == ToLowerCase(name)
        themeVar ==
            IF token.type = JString("color")
            THEN IF Len(parts) >= 2
                 THEN "--color-" \o parts[Len(parts) - 1] \o "-" \o Last(parts)
                 ELSE "--color-" \o Last(parts)
            ELSE IF token.type = JString("dimension")
            THEN IF \/ Includes(lowerName, "spacing") \/ Includes(lowerName, "space")
                    \/ Includes(lowerName, "margin") \/ Includes(lowerName, "padding")
                 THEN "--spacing-" \o Last(parts)
                 ELSE IF Includes(lowerName, "font") /\ Includes(lowerName, "size")
                 THEN "--font-size-" \o Last(parts)
                 ELSE "--spacing-" \o Last(parts)
            ELSE IF token.type = JString("fontFamily")
            THEN "--font-family-" \o Last(parts)
            ELSE IF token.type = JString("fontWeight")
            THEN "--font-weight-" \o Last(parts)
            ELSE "--" \o Last(parts)
    IN  IF themeVar # "" THEN ToLowerCase(ReplaceAll(themeVar, ".", "-")) ELSE ""

TailwindLine(name, token) ==
    LET themeVar == generateTailwindVariable(name, token)
    IN  IF themeVar # "" THEN "  " \o themeVar \o ": " \o ToText(token.value) \o ";\n"
        ELSE ""

GenerateTailwind(tokens) ==
    "@import \"tailwindcss\";\n\n@theme {\n"
        \o Concat([i \in 1..Len(tokens) |->
                      TailwindLine(tokens[i][1], tokens[i][2])])
        \o "}"
        \o "\n\n/* Usage examples:\n"
        \o "   bg-primary-500     -> uses --color-primary-500\n"
        \o "   p-small           -> uses --spacing-small\n"
        \o "   text-body         -> uses --font-size-body\n"
        \o "*/"

IosLine(name, token) ==
    LET swiftName == ReplaceAll(ReplaceAll(name, ".", "_"), "-", "_")
    IN  IF token.type = JString("color")
        THEN "    static let " \o swiftName \o " = UIColor(hex: \""
                 \o ToText(token.value) \o "\")\n"
        ELSE "    static let " \o swiftName \o " = \"" \o ToText(token.value) \o "\"\n"

GenerateIos(tokens) ==
    "// Design Tokens for iOS\n\nimport UIKit\n\nstruct DesignTokens {\n"
        \o Concat([i \in 1..Len(tokens) |-> IosLine(tokens[i][1], tokens[i][2])]) \o "}"

TypeError == "TypeError"

HasElement(v, x) == \E i \in 1..Len(v.m) : v.m[i][2] = JString(x)

\* convertDimensionForAndroid on an array: its includes asks for an element
\* equal to the text, and parseFloat and the pattern read it as its text
ConvertArray(v, text) ==
    IF HasElement(v, "px") THEN text
    ELSE IF HasElement(v, "rem") THEN RemToDp(parseFloat(text))
    ELSE IF MatchesInteger(text) THEN text \o "dp"
    ELSE text

\* convertDimensionForAndroid on any value: a string as above, an array by
\* its own includes; any other value has no includes method
ConvertValue(v) ==
    CASE v.t = "string" -> Returned(convertDimensionForAndroid(v.s))
      [] v.t = "array" -> Returned(ConvertArray(v, ToText(v)))
      [] OTHER -> Thrown(TypeError)

AndroidName(name) ==
    ToLowerCase(ReplaceAll(ReplaceAll(name, ".", "_"), "-", "_"))

\* colorValue.startsWith is a method of strings only
ColorEntry(androidName, value) ==
    IF value.t # "string" THEN [bucket |-> "throw"]
    ELSE [bucket |-> "colors",
          line |-> "    <color name=\"" \o androidName \o "\">"
              \o (IF StartsWith(value.s, "#") THEN "" ELSE "#")
              \o value.s \o "</color>\n"]

DimenEntry(androidName, dimenValue) ==
    IF dimenValue.k = "error" THEN [bucket |-> "throw"]
    ELSE [bucket |-> "dimens",
          line |-> "    <dimen name=\"" \o androidName \o "\">"
              \o dimenValue.tokens \o "</dimen>\n"]

StringEntry(androidName, value) ==
    [bucket |-> "strings",
     line |-> "    <string name=\"" \o androidName \o "\">"
         \o ToText(value) \o "</string>\n"]

\* a loop that has no dimens bucket: a dimension goes with the strings
AndroidEntryWithoutDimens(name, token) ==
    IF token.type = JString("color")
    THEN ColorEntry(AndroidName(name), token.value)
    ELSE StringEntry(AndroidName(name), token.value)

\* one pass of the android generator's loop: the bucket the token goes to and
\* the line added to it, or the TypeError of a method missing on the value
AndroidEntry(name, token) ==
    IF token.type = JString("color")
    THEN ColorEntry(AndroidName(name), token.value)
    ELSE IF token.type = JString("dimension")
    THEN DimenEntry(AndroidName(name), ConvertValue(token.value))
    ELSE StringEntry(AndroidName(name), token.value)

XmlHead == "<?xml version=\"1.0\" encoding=\"utf-8\"?>\n<resources>\n"

AndroidBuckets == <<"colors", "dimens", "strings">>

\* hasColors, hasDimens, hasStrings
HasEntry(entries, b) == \E i \in 1..Len(entries) : entries[i].bucket = b

\* the resource file of a bucket
BucketFile(entries, b) ==
    XmlHead
        \o Concat([i \in 1..Len(entries) |->
                      IF entries[i].bucket = b THEN entries[i].line ELSE ""])
        \o "</resources>"

RECURSIVE AppendSections(_, _, _)

\* result += section, from bucket i on, for the buckets that have an entry
AppendSections(entries, i, result) ==
    IF i > Len(AndroidBuckets) THEN result
    ELSE IF HasEntry(entries, AndroidBuckets[i])
    THEN AppendSections(entries, i + 1,
             result \o (IF result # "" THEN "\n\n" ELSE "")
                 \o "<!-- " \o AndroidBuckets[i] \o ".xml -->\n"
                 \o BucketFile(entries, AndroidBuckets[i]))
    ELSE AppendSections(entries, i + 1, result)

\* return result || '<!-- No valid tokens found for Android conversion -->'
AndroidResult(result) ==
    IF result # "" THEN Returned(result)
    ELSE Returned("<!-- No valid tokens found for Android conversion -->")

AndroidSections(entries) ==
    IF HasEntry(entries, "throw") THEN Thrown(TypeError)
    ELSE AndroidResult(AppendSections(entries, 1, ""))

GenerateAndroid(tokens) ==
    AndroidSections([i \in 1..Len(tokens) |->
                        AndroidEntry(tokens[i][1], tokens[i][2])])

Formats == <<"css", "scss", "js", "json", "tailwind", "ios", "android">>

FormatSet == {Formats[i] : i \in 1..Len(Formats)}

\* names every object inherits from Object.prototype
ObjectPrototype ==
    {"constructor", "toString", "toLocaleString", "valueOf", "hasOwnProperty",
     "isPrototypeOf", "propertyIsEnumerable", "__proto__"}

\* the outcome of a generate call: the text returned, a value returned that is
\* no text, or the error thrown
Text(text) == [k |-> "text", text |-> text]

NotText == [k |-> "object"]

AsText(result) == IF result.k = "error" THEN result ELSE Text(result.tokens)

\* this.generators[format](tokens): an own generator, or what the name finds
\* on Object.prototype, called with no receiver
CallGenerator(format, tokens) ==
    CASE format = "css" -> Text(GenerateCss(tokens))
      [] format = "scss" -> Text(GenerateScss(tokens))
      [] format = "js" -> Text(GenerateJs(tokens))
      [] format = "json" -> Text(GenerateJson(tokens))
      [] format = "tailwind" -> Text(GenerateTailwind(tokens))
      [] format = "ios" -> Text(GenerateIos(tokens))
      [] format = "android" -> AsText(GenerateAndroid(tokens))
      [] format = "toString" -> Text("[object Undefined]")
      [] format = "constructor" -> NotText
      [] OTHER -> Thrown(TypeError)

generate(format, tokens) ==
    IF format \notin FormatSet \cup ObjectPrototype
    THEN Thrown("Unknown format: " \o format)
    ELSE CallGenerator(format, tokens)

(***************************************************************************)
(* Inputs of parseInput: every concatenation of at most MaxRawWords pieces *)
(* of the three notations, and the JSON text of every document whose       *)
(* members nest at most MaxDepth objects deep.                             *)
(***************************************************************************)
MaxRawWords == 4

MaxDepth == 2

RawWords == {"{", "}", "--a", "$b", ": 1;", " "}

RawTexts == Concats(RawWords, MaxRawWords)

DocLeaves == {JString("$b: --a;"), JNull}

DocTypes == {"spacing"}

\* a leaf, an empty object, or an object of one member (or of a value and a
\* type) around a chain one level shallower
RECURSIVE Chains(_)
Chains(d) ==
    IF d = 0 THEN DocLeaves \cup {JObject(<<>>)}
    ELSE LET inner == Chains(d - 1)
         IN  Chains(0)
                 \cup {JObject(<<<<k, c>>>>) : k \in {"b", "value"}, c \in inner}
                 \cup {JObject(<<<<"value", c>>, <<"type", JString(t)>>>>) :
                          c \in inner, t \in DocTypes}

RootKeys == {"a", "a.b", "value"}

KeyPairs == {kk \in RootKeys \X RootKeys : kk[1] # kk[2]}

\* documents of no member, of one member, and of two members
Docs ==
    {JObject(<<>>)}
        \cup {JObject(<<<<k, c>>>>) : k \in RootKeys, c \in Chains(MaxDepth)}
        \cup {JObject(<<<<kk[1], c1>>, <<kk[2], c2>>>>) :
                 kk \in KeyPairs, c1 \in Chains(MaxDepth), c2 \in Chains(1)}

DocTexts == {Stringify(doc, "") : doc \in Docs}

ParseInputs == RawTexts \cup DocTexts

InitParse ==
    /\ pc = "start"
    /\ arg \in ParseInputs
    /\ ret = Pending
    /\ generated = Pending
    /\ reparsed = Pending
    /\ NoManager
    /\ NoConverter
    /\ NoPalette

ParseInput ==
    /\ pc = "start"
    /\ ret' = parseInput(arg)
    /\ pc' = "done"
    /\ UNCHANGED <<arg, generated, reparsed, pageVars>>

NextParse == ParseInput

SpecParse == InitParse /\ [][NextParse]_vars

(***************************************************************************)
(* Properties of parseInput.                                               *)
(***************************************************************************)
Parsed == pc = "done" /\ ret.k = "tokens"

\* C1: parseInput takes the first test that matches, in the order: begins
\* with "{" (JSON, whatever else the text holds), contains "--" (CSS, even
\* with a "$"), contains "$" (SCSS); with none it throws the error of an
\* unrecognized format and returns no tokens.
C1_FirstMatchWins ==
    pc = "done" =>
        /\ StartsWith(arg, "{") => ret = parseJSON(arg)
        /\ ~StartsWith(arg, "{") /\ Includes(arg, "--")
               => ret = Returned(parseCSS(arg))
        /\ ~StartsWith(arg, "{") /\ ~Includes(arg, "--") /\ Includes(arg, "$")
               => ret = Returned(parseSCSS(arg))
        /\ ~StartsWith(arg, "{") /\ ~Includes(arg, "--") /\ ~Includes(arg, "$")
               => ret = Thrown("Unrecognized format")

\* a JSON text holding both "--" and "$" that gave the tokens of its JSON
C1_Witness ==
    /\ Parsed
    /\ StartsWith(arg, "{") /\ Includes(arg, "--") /\ Includes(arg, "$")
    /\ ret.tokens # <<>>
    /\ ret.tokens # parseCSS(arg)

HasValue(v) == IsObject(v) /\ HasKey(v.m, "value")

RECURSIVE NodesOf(_, _, _, _)

\* the nodes below an object in document order, from member i on, each with
\* its path and whether it lies inside a node that has a value key
NodesOf(m, i, path, inside) ==
    IF i > Len(m) THEN <<>>
    ELSE LET p == Append(path, m[i][1])
             v == m[i][2]
         IN  <<[path |-> p, node |-> v, inside |-> inside]>>
                 \o (IF IsObject(v)
                     THEN NodesOf(v.m, 1, p, inside \/ HasValue(v))
                     ELSE <<>>)
                 \o NodesOf(m, i + 1, path, inside)

DocumentNodes == NodesOf(JSONParse(arg).value.m, 1, <<>>, FALSE)

EntryNames == {ret.tokens[j][1] : j \in 1..Len(ret.tokens)}

\* C2 as stated: one entry for every node that is an object with a value
\* key, the root and the nodes inside a token included.
C2_EveryValueNode ==
    Parsed /\ StartsWith(arg, "{") =>
        LET nodes == DocumentNodes
            root == JSONParse(arg).value
        IN  EntryNames =
                {Join(nodes[i].path, ".") :
                     i \in {n \in 1..Len(nodes) : HasValue(nodes[n].node)}}
                    \cup (IF HasValue(root) THEN {""} ELSE {})

\* C2: flattenTokens returns one entry for every node below the root that is
\* an object with a value key and does not lie inside another such node,
\* under the dot-joined path of its ancestry; the root and every other
\* object is a group that is recursed into, a scalar gives no entry, and of
\* two nodes with the same dotted name the later one is the entry.
C2_TokensBelowRoot ==
    Parsed /\ StartsWith(arg, "{") =>
        LET nodes == DocumentNodes
            tok == {n \in 1..Len(nodes) :
                       HasValue(nodes[n].node) /\ ~nodes[n].inside}
            name(n) == Join(nodes[n].path, ".")
        IN  /\ EntryNames = {name(n) : n \in tok}
            /\ \A j, k \in 1..Len(ret.tokens) :
                   ret.tokens[j][1] = ret.tokens[k][1] => j = k
            /\ \A n \in tok :
                   (\A l \in tok : name(l) = name(n) => l <= n)
                       => LET entry == Get(ret.tokens, name(n))
                          IN  /\ entry.value = Get(nodes[n].node.m, "value")
                              /\ entry.path = nodes[n].path

\* a document with a token inside a token: the outer one is the entry
C2_Witness ==
    /\ Parsed /\ StartsWith(arg, "{")
    /\ ret.tokens # <<>>
    /\ LET nodes == DocumentNodes
       IN  \E n \in 1..Len(nodes) : HasValue(nodes[n].node) /\ nodes[n].inside

TokenTypes ==
    {"color", "dimension", "number", "fontFamily", "fontWeight", "string"}

\* C4: every token of every set parseInput returns has a type that is one
\* of color, dimension, number, fontFamily, fontWeight, string.
C4_TypeIsOneOfSix ==
    Parsed =>
        \A j \in 1..Len(ret.tokens) :
            ret.tokens[j][2].type \in {JString(t) : t \in TokenTypes}

(***************************************************************************)
(* generate(format, tokens) on its own: token sets of at most MaxTokens    *)
(* tokens as parseJSON returns them, and format names inside and outside   *)
(* the generators object.                                                  *)
(***************************************************************************)
MaxTokens == 3

GenNames == <<"a", "b.c", "d-e", "F">>

GenName(i) == IF i <= Len(GenNames) THEN GenNames[i] ELSE "t" \o NatToString(i)

\* value and type of a token: one for each bucket, a type outside the six,
\* no type at all, and a color that is no text
GenKinds ==
    {<<JString("#fff"), JString("color")>>,
     <<JString("1rem"), JString("dimension")>>,
     <<JString("x"), JString("string")>>,
     <<JString("8"), JString("spacing")>>,
     <<JString("x"), Undefined>>,
     <<JNull, JString("color")>>}

TokenSets ==
    UNION {{[i \in 1..n |->
                <<GenName(i), Token(kinds[i][1], kinds[i][2], Split(GenName(i), "."))>>] :
               kinds \in [1..n -> GenKinds]} : n \in 0..MaxTokens}

GenFormats ==
    FormatSet \cup {"xml", "", "CSS", "toString", "constructor", "valueOf", "__proto__"}

InitGenerate ==
    /\ pc = "start"
    /\ arg \in {[format |-> f, tokens |-> t] : f \in GenFormats, t \in TokenSets}
    /\ ret = Pending
    /\ generated = Pending
    /\ reparsed = Pending
    /\ NoManager
    /\ NoConverter
    /\ NoPalette

Generate ==
    /\ pc = "start"
    /\ ret' = generate(arg.format, arg.tokens)
    /\ pc' = "done"
    /\ UNCHANGED <<arg, generated, reparsed, pageVars>>

NextGenerate == Generate

SpecGenerate == InitGenerate /\ [][NextGenerate]_vars

\* C6: generate fails with the unknown-format error for every format that
\* is not one of css, scss, js, json, tailwind, ios, android, and returns
\* text only for those seven.
C6_OnlySevenFormats ==
    pc = "done" =>
        /\ arg.format \notin FormatSet
               => ret = Thrown("Unknown format: " \o arg.format)
        /\ ret.k = "text" => arg.format \in FormatSet

Occurrences(text, part) ==
    Cardinality({i \in 1..(Len(text) - Len(part) + 1) :
                    SubSeq(text, i, i + Len(part) - 1) = part})

Find(text, part) ==
    IF Includes(text, part)
    THEN CHOOSE i \in 1..(Len(text) - Len(part) + 1) :
             /\ SubSeq(text, i, i + Len(part) - 1) = part
             /\ \A j \in 1..(i - 1) : SubSeq(text, j, j + Len(part) - 1) # part
    ELSE 0

Buckets == {"colors", "dimens", "strings"}

BucketOf(token) ==
    IF token.type = JString("color") THEN "colors"
    ELSE IF token.type = JString("dimension") THEN "dimens"
    ELSE "strings"

Marker(b) == "<!-- " \o b \o ".xml -->"

Tag(b) ==
    CASE b = "colors" -> "<color name=\""
      [] b = "dimens" -> "<dimen name=\""
      [] b = "strings" -> "<string name=\""

\* the section of a bucket: from its marker to the end of its resources
Section(text, b) ==
    IF ~Includes(text, Marker(b)) THEN ""
    ELSE LET rest == SubSeq(text, Find(text, Marker(b)), Len(text))
         IN  SubSeq(rest, 1, Find(rest, "</resources>") - 1)

AndroidText == pc = "done" /\ arg.format = "android" /\ ret.k = "text"

\* C9: in the text of the android generator every token has its entry in
\* the section of exactly one bucket, chosen by its type (color -> colors,
\* dimension -> dimens, anything else -> strings), and a bucket's section is
\* in the text if and only if a token fell in that bucket.
C9_ThreeBuckets ==
    AndroidText =>
        LET tokens == arg.tokens
            count(b) ==
                Cardinality({i \in 1..Len(tokens) : BucketOf(tokens[i][2]) = b})
            androidName(i) ==
                ToLowerCase(ReplaceAll(ReplaceAll(tokens[i][1], ".", "_"), "-", "_"))
        IN  /\ \A b \in Buckets :
                   /\ Includes(ret.text, Marker(b)) <=> count(b) > 0
                   /\ \A c \in Buckets :
                          Occurrences(Section(ret.text, b), Tag(c))
                              = IF c = b THEN count(b) ELSE 0
            /\ \A i \in 1..Len(tokens) :
                   Includes(Section(ret.text, BucketOf(tokens[i][2])),
                            Tag(BucketOf(tokens[i][2])) \o androidName(i) \o "\">")

\* three tokens, one in each bucket, and a text of three sections
C9_Witness ==
    /\ AndroidText
    /\ \A b \in Buckets :
           /\ \E i \in 1..Len(arg.tokens) : BucketOf(arg.tokens[i][2]) = b
           /\ Includes(ret.text, Marker(b))

(***************************************************************************)
(* The CSS round trip: parseCSS, the css generator, parseCSS again, on     *)
(* every concatenation of at most MaxCssWords pieces of declarations.      *)
(***************************************************************************)
MaxCssWords == 4

CssWords == {"--foo: 8px;", "--a", "--", ".b", " ", ": 1;", ": 2;"}

CssTexts == Concats(CssWords, MaxCssWords)

InitRoundTrip ==
    /\ pc = "start"
    /\ arg \in CssTexts
    /\ ret = Pending
    /\ generated = Pending
    /\ reparsed = Pending
    /\ NoManager
    /\ NoConverter
    /\ NoPalette

ParseCss ==
    /\ pc = "start"
    /\ ret' = Returned(parseCSS(arg))
    /\ pc' = "parsed"
    /\ UNCHANGED <<arg, generated, reparsed, pageVars>>

GenerateCssText ==
    /\ pc = "parsed"
    /\ generated' = generate("css", ret.tokens)
    /\ pc' = "generated"
    /\ UNCHANGED <<arg, ret, reparsed, pageVars>>

ReparseCss ==
    /\ pc = "generated"
    /\ reparsed' = Returned(parseCSS(generated.text))
    /\ pc' = "done"
    /\ UNCHANGED <<arg, ret, generated, pageVars>>

NextRoundTrip == ParseCss \/ GenerateCssText \/ ReparseCss

SpecRoundTrip == InitRoundTrip /\ [][NextRoundTrip]_vars

\* every parsed token has its declaration in the generated text
EachDeclarationKept ==
    \A j \in 1..Len(ret.tokens) :
        Includes(generated.text,
                 "--" \o ret.tokens[j][1] \o ": " \o ret.tokens[j][2].value.s \o ";")

\* C7 as stated: whatever the names of the declarations are, the generated
\* css holds each of them and parses back to the same tokens.
C7_EveryName ==
    pc = "done" /\ ret.tokens # <<>> =>
        EachDeclarationKept /\ reparsed = ret

\* C7: when every declared name, once trimmed, is not empty and holds no
\* ".", the generated css holds `--name: value;` for every parsed token (a
\* name declared twice is one token, of the last value), and parsing the
\* generated text gives the same tokens.
C7_PlainNames ==
    pc = "done"
        /\ (\A j \in 1..Len(ret.tokens) :
                ret.tokens[j][1] # "" /\ ~Includes(ret.tokens[j][1], "."))
        => EachDeclarationKept /\ reparsed = ret

\* `--foo: 8px;` went round and came back as it was
C7_Witness ==
    /\ pc = "done"
    /\ arg = "--foo: 8px;"
    /\ Len(ret.tokens) = 1
    /\ generated = Text(":root {\n  --foo: 8px;\n}")
    /\ reparsed = ret

(***************************************************************************)
(* TokenExamples: the four example texts.                                  *)
(***************************************************************************)
ExampleW3c ==
    "{\n"
       \o "  \"color\": {\n"
       \o "    \"primary\": {\n"
       \o "      \"100\": { \"value\": \"#e3f2fd\", \"type\": \"color\" },\n"
       \o "      \"500\": { \"value\": \"#2196f3\", \"type\": \"color\" },\n"
       \o "      \"900\": { \"value\": \"#0d47a1\", \"type\": \"color\" }\n"
       \o "    },\n"
       \o "    \"semantic\": {\n"
       \o "      \"success\": { \"value\": \"{color.primary.500}\", \"type\": \"color\" }\n"
       \o "    }\n"
       \o "  },\n"
       \o "  \"spacing\": {\n"
       \o "    \"small\": { \"value\": \"8px\", \"type\": \"dimension\" },\n"
       \o "    \"medium\": { \"value\": \"16px\", \"type\": \"dimension\" },\n"
       \o "    \"large\": { \"value\": \"24px\", \"type\": \"dimension\" }\n"
       \o "  },\n"
       \o "  \"typography\": {\n"
       \o "    \"body\": {\n"
       \o "      \"fontFamily\": { \"value\": [\"Inter\", \"sans-serif\"], \"type\": \"fontFamily\" },\n"
       \o "      \"fontSize\": { \"value\": \"16px\", \"type\": \"dimension\" },\n"
       \o "      \"fontWeight\": { \"value\": \"400\", \"type\": \"fontWeight\" }\n"
       \o "    }\n"
       \o "  }\n"
       \o "}"

ExampleCss ==
    ":root {\n"
       \o "  /* Colors */\n"
       \o "  --color-primary-100: #e3f2fd;\n"
       \o "  --color-primary-500: #2196f3;\n"
       \o "  --color-primary-900: #0d47a1;\n"
       \o "  \n"
       \o "  /* Spacing */\n"
       \o "  --spacing-small: 8px;\n"
       \o "  --spacing-medium: 16px;\n"
       \o "  --spacing-large: 24px;\n"
       \o "  \n"
       \o "  /* Typography */\n"
       \o "  --font-size-body: 16px;\n"
       \o "  --font-weight-normal: 400;\n"
       \o "}"

ExampleScss ==
    "// Colors\n"
       \o "$color-primary-100: #e3f2fd;\n"
       \o "$color-primary-500: #2196f3;\n"
       \o "$color-primary-900: #0d47a1;\n"
       \o "\n"
       \o "// Spacing\n"
       \o "$spacing-small: 8px;\n"
       \o "$spacing-medium: 16px;\n"
       \o "$spacing-large: 24px;\n"
       \o "\n"
       \o "// Typography\n"
       \o "$font-size-body: 16px;\n"
       \o "$font-weight-normal: 400;"

ExampleFigma ==
    "{\n"
       \o "  \"global\": {\n"
       \o "    \"color\": {\n"
       \o "      \"primary\": {\n"
       \o "        \"100\": { \"value\": \"#e3f2fd\", \"type\": \"color\" },\n"
       \o "        \"500\": { \"value\": \"#2196f3\", \"type\": \"color\" },\n"
       \o "        \"900\": { \"value\": \"#0d47a1\", \"type\": \"color\" }\n"
       \o "      }\n"
       \o "    },\n"
       \o "    \"spacing\": {\n"
       \o "      \"small\": { \"value\": \"8\", \"type\": \"spacing\" },\n"
       \o "      \"medium\": { \"value\": \"16\", \"type\": \"spacing\" },\n"
       \o "      \"large\": { \"value\": \"24\", \"type\": \"spacing\" }\n"
       \o "    }\n"
       \o "  }\n"
       \o "}"

\* TokenExamples.get: the text of the name, null for any other name
ExampleNames == {"w3c", "css", "scss", "figma"}

ExampleOf(name) ==
    CASE name = "w3c" -> ExampleW3c
      [] name = "css" -> ExampleCss
      [] name = "scss" -> ExampleScss
      [] name = "figma" -> ExampleFigma

(***************************************************************************)
(* DesignTokenManager: the page with its text area, status line, token     *)
(* tree, output pane and Export All button, and the handlers of its        *)
(* buttons.  The page holds every element the constructor looks up.        *)
(***************************************************************************)
\* token.type || 'other', as the key of the groups object
GroupKey(token) ==
    IF token.type \in {Undefined, JNull, JString("")} THEN "other"
    ELSE ToText(token.type)

\* groups[type].push(...) after `if (!groups[type]) groups[type] = []`
PushName(groups, type, name) ==
    Put(groups, type,
        Append(IF HasKey(groups, type) THEN Get(groups, type) ELSE <<>>, name))

RECURSIVE GroupEntries(_, _, _)

\* groupTokensByType from token i on, or the TypeError of pushing onto a
\* member inherited from Object.prototype
GroupEntries(tokens, i, groups) ==
    IF i > Len(tokens) THEN Returned(groups)
    ELSE IF /\ ~HasKey(groups, GroupKey(tokens[i][2]))
            /\ GroupKey(tokens[i][2]) \in ObjectPrototype
    THEN Thrown(TypeError)
    ELSE GroupEntries(tokens, i + 1,
             PushName(groups, GroupKey(tokens[i][2]), tokens[i][1]))

groupTokensByType(tokens) == GroupEntries(tokens, 1, <<>>)

\* what updateOutput shows of the outcome of generate
OutputText(format, output) ==
    CASE output.k = "text" -> output.text
      [] output.k = "error" ->
           "Error generating " \o format \o " output: " \o output.message
      [] OTHER -> "[object Object]"

\* what updateOutput writes for a format and a token set
OutputFor(format, tokens) ==
    IF Len(tokens) = 0 THEN "Parse tokens to see output formats"
    ELSE OutputText(format, generate(format, tokens))

\* parseTokens on an empty text: the status and nothing else
NoInputProvided ==
    /\ validationStatus' = Status("invalid", "No input provided")
    /\ UNCHANGED <<parsedTokens, tokenTree, outputCode, exportDisabled>>

\* the end of the try block of parseTokens
TokensParsed(tokens, groups) ==
    /\ parsedTokens' = tokens
    /\ validationStatus' =
           Status("valid", NatToString(Len(tokens)) \o " tokens parsed")
    /\ tokenTree' = [k |-> "groups", groups |-> groups]
    /\ outputCode' = OutputFor(currentFormat, tokens)
    /\ exportDisabled' = FALSE

\* a catch block that reports the error and keeps the tokens parsed before
ParseFailedKeepingTokens(message) ==
    /\ validationStatus' = Status("invalid", "Error: " \o message)
    /\ tokenTree' = [k |-> "failed"]
    /\ outputCode' = "Fix parsing errors to see output"
    /\ exportDisabled' = TRUE
    /\ UNCHANGED parsedTokens

\* the catch block of parseTokens
ParseFailed(message) ==
    /\ validationStatus' = Status("invalid", "Error: " \o message)
    /\ parsedTokens' = <<>>
    /\ tokenTree' = [k |-> "failed"]
    /\ outputCode' = "Fix parsing errors to see output"
    /\ exportDisabled' = TRUE

\* the try block once the tokens are parsed: updateTokenTree may still throw
TreeBuilt(tokens, groups) ==
    IF groups.k = "tokens" THEN TokensParsed(tokens, groups.tokens)
    ELSE ParseFailed(groups.message)

\* the try block of parseTokens on the outcome of parseInput
InputParsed(result) ==
    IF result.k = "tokens"
    THEN TreeBuilt(result.tokens, groupTokensByType(result.tokens))
    ELSE ParseFailed(result.message)

\* the body of parseTokens, value being the text of the text area
ParseTokensOn(value) ==
    IF Trim(value) = "" THEN NoInputProvided
    ELSE InputParsed(parseInput(Trim(value)))

getFileExtension(format) ==
    CASE format \in {"css", "scss", "js", "json"} -> format
      [] format = "tailwind" -> "js"
      [] format = "ios" -> "swift"
      [] format = "android" -> "xml"
      [] OTHER -> "txt"

\* files[`tokens.${extension}`] = content, skipped when generate threw
AddFile(files, format, content) ==
    IF content.k = "text"
    THEN Put(files, "tokens." \o getFileExtension(format), content.text)
    ELSE files

RECURSIVE ExportFiles(_, _, _)

\* the forEach of exportAll from format i on
ExportFiles(tokens, i, files) ==
    IF i > Len(Formats) THEN files
    ELSE ExportFiles(tokens, i + 1,
             AddFile(files, Formats[i], generate(Formats[i], tokens)))

\* the texts typed or pasted into the text area
SampleTokens == "{\"colors\": {\"primary\": {\"value\": \"#0066cc\"}}}"

ManagerInputs ==
    {"", "{invalid", " {invalid\n", "--foo: 8px;", "hello", SampleTokens}

\* the example buttons clicked, and a button of a name that has no example
ExampleButtons == {"figma", "none"}

\* the page as loaded and the manager as constructed; the markup decides
\* whether the Export All button starts disabled
InitManager ==
    /\ pc = "page"
    /\ arg = ""
    /\ ret = Pending
    /\ generated = Pending
    /\ reparsed = Pending
    /\ tokenInput = ""
    /\ parsedTokens = <<>>
    /\ currentFormat = "css"
    /\ validationStatus = Status("pending", "Ready to parse")
    /\ tokenTree = [k |-> "page"]
    /\ outputCode = ""
    /\ exportDisabled \in BOOLEAN
    /\ download = Pending
    /\ lastOp = "constructor"
    /\ NoConverter
    /\ NoPalette

\* the user types or pastes a text
EditInput ==
    /\ \E text \in ManagerInputs : tokenInput' = text
    /\ download' = Pending
    /\ lastOp' = "input"
    /\ UNCHANGED <<parsedTokens, currentFormat, validationStatus, tokenTree,
                   outputCode, exportDisabled, callVars, converterVars, paletteVars>>

\* click on the parse button
ParseTokens ==
    /\ ParseTokensOn(tokenInput)
    /\ download' = Pending
    /\ lastOp' = "parseTokens"
    /\ UNCHANGED <<tokenInput, currentFormat, callVars, converterVars, paletteVars>>

\* click on an example button
LoadExample ==
    /\ \E name \in ExampleButtons :
           IF name \in ExampleNames
           THEN /\ tokenInput' = ExampleOf(name)
                /\ ParseTokensOn(ExampleOf(name))
           ELSE UNCHANGED <<tokenInput, parsedTokens, validationStatus,
                            tokenTree, outputCode, exportDisabled>>
    /\ download' = Pending
    /\ lastOp' = "loadExample"
    /\ UNCHANGED <<currentFormat, callVars, converterVars, paletteVars>>

\* click on an output tab
SwitchOutputTab ==
    /\ \E format \in FormatSet :
           /\ currentFormat' = format
           /\ outputCode' = OutputFor(format, parsedTokens)
    /\ download' = Pending
    /\ lastOp' = "switchOutputTab"
    /\ UNCHANGED <<tokenInput, parsedTokens, validationStatus, tokenTree,
                   exportDisabled, callVars, converterVars, paletteVars>>

\* click on Export All, or a call of window.exportAll
ExportAll ==
    /\ download' = [k |-> "files", files |-> ExportFiles(parsedTokens, 1, <<>>)]
    /\ lastOp' = "exportAll"
    /\ UNCHANGED <<tokenInput, parsedTokens, currentFormat, validationStatus,
                   tokenTree, outputCode, exportDisabled, callVars, converterVars, paletteVars>>

NextManager ==
    EditInput \/ ParseTokens \/ LoadExample \/ SwitchOutputTab \/ ExportAll

SpecManager == InitManager /\ [][NextManager]_vars

\* parseTokens has just run on a text that, trimmed, begins with "{" and is
\* not JSON
ParsedBrokenJson ==
    /\ lastOp = "parseTokens"
    /\ StartsWith(Trim(tokenInput), "{")
    /\ ~JSONParse(Trim(tokenInput)).ok

\* C5: parseTokens on a text that begins with "{" and is not valid JSON ends
\* (no exception leaves the handler) with the status invalid, parsedTokens
\* empty and the Export All button disabled.
C5_BrokenJsonIsInvalid ==
    ParsedBrokenJson =>
        /\ validationStatus.status = "invalid"
        /\ parsedTokens = <<>>
        /\ exportDisabled

\* `{invalid` parsed: the error of parseJSON is the message of the status
C5_Witness ==
    /\ ParsedBrokenJson
    /\ tokenInput = "{invalid"
    /\ validationStatus = Status("invalid", "Error: Invalid JSON format")
    /\ tokenTree = [k |-> "failed"]
    /\ parsedTokens = <<>>
    /\ exportDisabled

\* C8: exportAll hands over a mapping of seven entries, one for each of the
\* seven formats, each holding the text generated for its format.
C8_SevenFiles ==
    lastOp = "exportAll" =>
        /\ Len(download.files) = Len(Formats)
        /\ \A i \in 1..Len(Formats) :
               Text(Get(download.files,
                        "tokens." \o getFileExtension(Formats[i])))
                   = generate(Formats[i], parsedTokens)

(***************************************************************************)
(* Numbers of the converter.  A number is NaN or the exact decimal         *)
(* sign * num / 10^scale; Value is its one representation, so that equal   *)
(* numbers are equal records.  Inputs that lie exactly between two         *)
(* roundings are left out: there the binary value of the number decides.   *)
(***************************************************************************)
RECURSIVE Decimal(_, _, _)
Decimal(sign, num, scale) ==
    IF num = 0 THEN [nan |-> FALSE, sign |-> 1, num |-> 0, scale |-> 0]
    ELSE IF scale < 0 THEN Decimal(sign, num * 10, scale + 1)
    ELSE IF scale > 0 /\ num % 10 = 0 THEN Decimal(sign, num \div 10, scale - 1)
    ELSE [nan |-> FALSE, sign |-> sign, num |-> num, scale |-> scale]

Value(x) == IF x.nan THEN NaN ELSE Decimal(x.sign, x.num, x.scale)

\* the digits of n units of 10^-d, with the decimal point
FixedText(n, d) ==
    IF d = 0 THEN NatToString(n)
    ELSE NatToString(n \div Pow10(d)) \o "."
             \o Repeat("0", d - Len(NatToString(n % Pow10(d))))
             \o NatToString(n % Pow10(d))

\* Number.prototype.toFixed(d)
toFixed(x, d) ==
    IF x.nan THEN "NaN"
    ELSE (IF x.sign < 0 THEN "-" ELSE "")
             \o FixedText(RoundTimes([x EXCEPT !.sign = 1], Pow10(d)), d)

\* String(x), as a template literal and the value setter of an input make it
NumberText(x) ==
    IF x.nan THEN "NaN"
    ELSE (IF x.sign < 0 THEN "-" ELSE "") \o FixedText(x.num, x.scale)

\* Math.round(x * k) / k for k = 10^d
Abs(n) == IF n < 0 THEN -n ELSE n

RoundTo(x, d) ==
    Decimal(IF RoundTimes(x, Pow10(d)) < 0 THEN -1 ELSE 1,
            Abs(RoundTimes(x, Pow10(d))), d)

\* x || 0 on a number or undefined
OrZero(x) == IF x = Undefined THEN Decimal(1, 0, 0) ELSE IF x.nan THEN Decimal(1, 0, 0) ELSE x

(***************************************************************************)
(* The colour library.  culori.oklch and culori.formatHex are not part of  *)
(* the repository; the converter only needs them to be functions, so each  *)
(* is a fixed table here: a hex colour has a lightness read off its blue   *)
(* channel, one chroma and one hue, and a grey has no hue at all, as the   *)
(* library leaves the hue of an achromatic colour undefined.               *)
(***************************************************************************)
HexDigits == "0123456789abcdef"

HexValue(c) == CHOOSE d \in 0..15 : Ch(HexDigits, d + 1) = ToLowerCase(c)

Hex2(n) == Ch(HexDigits, (n \div 16) + 1) \o Ch(HexDigits, (n % 16) + 1)

\* the six digits of '#rgb' or '#rrggbb'
SixDigits(hex) ==
    IF Len(hex) = 4
    THEN Ch(hex, 2) \o Ch(hex, 2) \o Ch(hex, 3) \o Ch(hex, 3) \o Ch(hex, 4) \o Ch(hex, 4)
    ELSE SubSeq(hex, 2, 7)

Channel(digits, i) == 16 * HexValue(Ch(digits, i)) + HexValue(Ch(digits, i + 1))

IsGrey(digits) ==
    /\ Channel(digits, 1) = Channel(digits, 3)
    /\ Channel(digits, 3) = Channel(digits, 5)

OklchOf(digits) ==
    [l |-> Decimal(1, 10004 + 337 * Channel(digits, 5), 5),
     c |-> IF IsGrey(digits) THEN Decimal(1, 0, 0) ELSE Decimal(1, 12346, 5),
     h |-> IF IsGrey(digits) THEN Undefined ELSE Decimal(1, 28504, 2)]

\* culori.oklch on a text that is a hex colour
culoriOklch(hex) == OklchOf(SixDigits(hex))

DefaultHex == "#b8a9db"

\* the L, C and H the markup of the page starts with: the colour that
\* saveCurrentColor calls a default colour
DefaultFields == [hex |-> "", l |-> "0.75", c |-> "0.08", h |-> "300"]

\* culori.formatHex on an OKLCH colour
culoriFormatHex(l, c, h) ==
    IF l = NaN \/ c = NaN \/ h = NaN THEN "#000000"
    ELSE IF h = Undefined THEN "#" \o Hex2(128) \o Hex2(128) \o Hex2(128)
    ELSE IF <<Value(l), Value(c), Value(h)>>
                = <<Decimal(1, 75, 2), Decimal(1, 8, 2), Decimal(1, 300, 0)>>
    THEN DefaultHex
    ELSE "#ab00" \o Hex2(IF RoundTimes(l, 255) \in 0..255 THEN RoundTimes(l, 255)
                         ELSE IF l.sign < 0 THEN 0 ELSE 255)

(***************************************************************************)
(* ColorUtils (shared/color-utils.js)                                      *)
(***************************************************************************)
oklchToHex(l, c, h) == culoriFormatHex(l, c, h)

HexChars == HexLower \cup {"A", "B", "C", "D", "E", "F"}

\* normalizedHex of hexToOklch: trimmed, '#' put in front when missing
NormalizedHex(hexValue) ==
    IF Trim(hexValue) # "" /\ ~StartsWith(Trim(hexValue), "#")
    THEN "#" \o Trim(hexValue)
    ELSE Trim(hexValue)

\* /^#[0-9A-Fa-f]{6}$|^#[0-9A-Fa-f]{3}$/
IsHexColor(text) ==
    /\ Len(text) \in {4, 7}
    /\ Ch(text, 1) = "#"
    /\ \A i \in 2..Len(text) : Ch(text, i) \in HexChars

Rounded(oklchColor, normalizedHex) ==
    [l |-> RoundTo(OrZero(oklchColor.l), 3),
     c |-> RoundTo(OrZero(oklchColor.c), 3),
     h |-> RoundTo(OrZero(oklchColor.h), 1),
     hex |-> normalizedHex]

hexToOklch(hexValue) ==
    IF ~IsHexColor(NormalizedHex(hexValue)) THEN JNull
    ELSE Rounded(culoriOklch(NormalizedHex(hexValue)), NormalizedHex(hexValue))

(***************************************************************************)
(* ColorHistory (oklch-converter.js)                                       *)
(***************************************************************************)
maxItems == 20

\* the entry addColor builds
Entry(hex, l, c, h, now) ==
    [hex |-> ToLowerCase(hex),
     l |-> Value(parseFloat(toFixed(l, 3))),
     c |-> Value(parseFloat(toFixed(c, 3))),
     h |-> Value(parseFloat(toFixed(h, 1))),
     timestamp |-> now]

\* the filter with the hex compared as typed
WithoutExact(list, hex) ==
    LET Other(item) == item.hex # hex
    IN  SelectSeq(list, Other)

\* history.filter(item => item.hex.toLowerCase() !== hex.toLowerCase())
Without(list, hex) ==
    LET Other(item) == ToLowerCase(item.hex) # ToLowerCase(hex)
    IN  SelectSeq(list, Other)

\* the slice taken one entry too late
CappedLate(list) ==
    IF Len(list) > maxItems + 1 THEN SubSeq(list, 1, maxItems) ELSE list

\* history.slice(0, maxItems) when the list is longer than maxItems
Capped(list) == IF Len(list) > maxItems THEN SubSeq(list, 1, maxItems) ELSE list

\* the entry pushed at the end of the list
AddedAtEnd(list, hex, l, c, h, now) ==
    Capped(Without(list, hex) \o <<Entry(hex, l, c, h, now)>>)

\* the list addColor leaves
Added(list, hex, l, c, h, now) ==
    Capped(<<Entry(hex, l, c, h, now)>> \o Without(list, hex))

\* JSON.stringify then JSON.parse on a number: NaN is written as null
JsonNumber(x) == IF x = JNull THEN JNull ELSE IF x.nan THEN JNull ELSE x

JsonEntry(item) ==
    [hex |-> item.hex, l |-> JsonNumber(item.l), c |-> JsonNumber(item.c),
     h |-> JsonNumber(item.h), timestamp |-> item.timestamp]

NoItem == [k |-> "none"]

\* the item that holds JSON.stringify(list), kept as the value its text
\* parses to
Item(list) == [k |-> "item", json |-> [i \in 1..Len(list) |-> JsonEntry(list[i])]]

\* the size of the item, counted in entries
Size(store) == IF store.k = "item" THEN Len(store.json) ELSE -1

loadHistory(store) == IF store.k = "item" THEN store.json ELSE <<>>

\* setItem throws when the quota is used up and the item would grow
saveHistory(list) ==
    IF storageFull /\ Len(list) > Size(storage)
    THEN /\ storage' = storage
         /\ saved' = FALSE
    ELSE /\ storage' = Item(list)
         /\ saved' = TRUE

\* `${x}` on a number or null
ValueText(x) == IF x = JNull THEN "null" ELSE NumberText(x)

\* the value of an attribute written as name="text": it ends at the first
\* double quote of the text
AttributeValue(text) ==
    IF IndexFrom(text, "\"", 1) = 0 THEN text
    ELSE SubSeq(text, 1, IndexFrom(text, "\"", 1) - 1)

HistoryItem(item) ==
    [hex |-> AttributeValue(item.hex), l |-> ValueText(item.l),
     c |-> ValueText(item.c), h |-> ValueText(item.h), text |-> item.hex]

\* what renderHistory puts into the list; the relative time of an item is
\* not kept
renderHistory(list) ==
    IF Len(list) = 0 THEN [k |-> "history-empty"]
    ELSE [k |-> "history-item",
          items |-> [i \in 1..Len(list) |-> HistoryItem(list[i])]]

addColor(list, hex, l, c, h) ==
    /\ history' = Added(list, hex, l, c, h, clock + 1)
    /\ clock' = clock + 1
    /\ saveHistory(history')
    /\ historyList' = renderHistory(history')

\* clearHistory without its saveHistory call
clearHistoryUnsaved ==
    /\ history' = <<>>
    /\ UNCHANGED <<storage, saved>>
    /\ historyList' = renderHistory(history')
    /\ clock' = clock

clearHistory ==
    /\ history' = <<>>
    /\ saveHistory(history')
    /\ historyList' = renderHistory(history')
    /\ clock' = clock

\* a handler that does not call addColor: the list is `list`, shown as `shown`
NotAdded(list, shown) ==
    /\ history' = list
    /\ historyList' = shown
    /\ UNCHANGED <<storage, saved, clock>>

(***************************************************************************)
(* OKLCHConverter (oklch-converter.js).  The range and the value label of  *)
(* a field follow its input, so the input stands for the three.            *)
(***************************************************************************)
saveCurrentColor(list, shown, f) ==
    IF f.hex # "" /\ f.hex # "#000000" /\ f.hex # DefaultHex
    THEN addColor(list, f.hex, parseFloat(f.l), parseFloat(f.c), parseFloat(f.h))
    ELSE NotAdded(list, shown)

convertColor(list, shown, f) ==
    /\ fields' = [f EXCEPT !.hex = oklchToHex(parseFloat(f.l), parseFloat(f.c),
                                              parseFloat(f.h))]
    /\ saveCurrentColor(list, shown, fields')

Converted(result, hexValue) ==
    IF result = JNull
    THEN /\ fields' = [fields EXCEPT !.hex = hexValue]
         /\ NotAdded(history, historyList)
    ELSE /\ fields' = [hex |-> result.hex, l |-> NumberText(result.l),
                       c |-> NumberText(result.c), h |-> NumberText(result.h)]
         /\ addColor(history, result.hex, result.l, result.c, result.h)

convertFromHex(hexValue) == Converted(hexToOklch(hexValue), hexValue)

applyColor(hex, l, c, h) ==
    fields' = [hex |-> hex, l |-> NumberText(Value(l)), c |-> NumberText(Value(c)),
               h |-> NumberText(Value(h))]

\* the click handler renderHistory puts on an item
ItemClicked(item) ==
    applyColor(item.hex, parseFloat(item.l), parseFloat(item.c), parseFloat(item.h))

(***************************************************************************)
(* The converter page in use.  The user first enters new colours, one      *)
(* after the other (up to `fill` of them), and then does up to `most`      *)
(* things of any kind; the clock advances with every entry added.          *)
(***************************************************************************)
MaxColors == 22

MaxRepeats == 2

FewColors == 1

MaxSteps == 4

UpperMap ==
    [c \in {Ch(LowerChars, i) : i \in 1..26} |->
        Ch(UpperChars, CHOOSE i \in 1..26 : Ch(LowerChars, i) = c)]

RECURSIVE ToUpperCase(_)
ToUpperCase(s) ==
    IF s = "" THEN ""
    ELSE (IF Ch(s, 1) \in DOMAIN UpperMap THEN UpperMap[Ch(s, 1)] ELSE Ch(s, 1))
             \o ToUpperCase(SubSeq(s, 2, Len(s)))

\* the n-th new colour, typed in lower case or, every other time, in upper
\* case without the '#'
NewColour(n) ==
    IF n % 2 = 0 THEN "#ab00" \o Hex2(n) ELSE " AB00" \o ToUpperCase(Hex2(n))

\* a colour of the list typed again, in upper case
TypedAgain(list, i) ==
    IF i \in 1..Len(list) THEN ToUpperCase(list[i].hex) ELSE "#AB0"

\* what the user may type into the hex input
HexTexts ==
    {NewColour(clock + 1), TypedAgain(history, 1), TypedAgain(history, Len(history)),
     "zz", "a\"b"}

FieldEdits == {<<"l", "">>, <<"l", "0.5">>}

\* the handler run is one of the first entries of new colours, or one of the
\* `most` runs after them
Counted(first, fill, most) ==
    IF first /\ steps = 0 /\ clock < fill
    THEN steps' = 0
    ELSE /\ steps < most
         /\ steps' = steps + 1

\* the handler that ran, on what text, the list it found, whether it called
\* addColor and the hex it would hand to it
Done(op, text) ==
    event' = [op |-> op, text |-> text, before |-> history,
              added |-> clock' # clock, hex |-> fields'.hex]

OtherPages == UNCHANGED <<callVars, managerVars, otherTab, paletteVars>>

\* the page loaded for the first time: nothing is stored, and the
\* constructor's convertColor finds the default colour, which is not saved
InitConverter ==
    /\ pc = "page"
    /\ arg = ""
    /\ ret = Pending
    /\ generated = Pending
    /\ reparsed = Pending
    /\ NoManager
    /\ history = <<>>
    /\ historyList = renderHistory(<<>>)
    /\ storage = NoItem
    /\ saved = TRUE
    /\ storageFull = FALSE
    /\ fields = [DefaultFields EXCEPT !.hex = DefaultHex]
    /\ clock = 0
    /\ steps = 0
    /\ event = [op |-> "load", text |-> "", before |-> <<>>, added |-> FALSE,
                hex |-> DefaultHex]
    /\ otherTab = Pending
    /\ NoPalette

\* 'input' on the hex input, the user typing one of `texts`
HexInputOf(texts, fill, most) ==
    \E text \in texts :
        /\ Counted(text = NewColour(clock + 1), fill, most)
        /\ convertFromHex(text)
        /\ Done("convertFromHex", text)
        /\ UNCHANGED storageFull
        /\ OtherPages

HexInput(fill, most) == HexInputOf(HexTexts, fill, most)

\* 'input' on the input or the range of L, C or H
FieldInput(most) ==
    \E edit \in FieldEdits :
        /\ Counted(FALSE, 0, most)
        /\ convertColor(history, historyList, [fields EXCEPT ![edit[1]] = edit[2]])
        /\ Done("convertColor", edit[2])
        /\ UNCHANGED storageFull
        /\ OtherPages

\* click on the copy button
CopyHex(most) ==
    /\ Counted(FALSE, 0, most)
    /\ saveCurrentColor(history, historyList, fields)
    /\ UNCHANGED <<fields, storageFull>>
    /\ Done("copyHex", fields.hex)
    /\ OtherPages

\* click on the clear button
ClearClick(most) ==
    /\ Counted(FALSE, 0, most)
    /\ clearHistory
    /\ UNCHANGED <<fields, storageFull>>
    /\ Done("clearHistory", "")
    /\ OtherPages

\* click on an item of the list
ItemClick(most) ==
    /\ historyList.k = "history-item"
    /\ Counted(FALSE, 0, most)
    /\ UNCHANGED <<history, historyList, storage, saved, clock, storageFull>>
    /\ \E i \in {1, Len(historyList.items)} :
           /\ ItemClicked(historyList.items[i])
           /\ Done("applyColor", NatToString(i))
    /\ OtherPages

\* the page is loaded again: a new OKLCHConverter with a new ColorHistory
PageLoad(most) ==
    /\ Counted(FALSE, 0, most)
    /\ convertColor(loadHistory(storage), renderHistory(loadHistory(storage)),
                    DefaultFields)
    /\ Done("load", "")
    /\ UNCHANGED storageFull
    /\ OtherPages

\* other pages of the origin use up the storage quota
StorageFills(most) ==
    /\ ~storageFull
    /\ Counted(FALSE, 0, most)
    /\ storageFull' = TRUE
    /\ UNCHANGED <<history, historyList, storage, saved, fields, clock, event>>
    /\ OtherPages

NextHistory ==
    \/ HexInput(MaxColors, MaxRepeats)
    \/ FieldInput(MaxRepeats)
    \/ CopyHex(MaxRepeats)
    \/ ClearClick(MaxRepeats)
    \/ ItemClick(MaxRepeats)
    \/ PageLoad(MaxRepeats)
    \/ StorageFills(MaxRepeats)

SpecHistory == InitConverter /\ [][NextHistory]_vars

NextConverter ==
    \/ HexInput(FewColors, MaxSteps)
    \/ FieldInput(MaxSteps)
    \/ CopyHex(MaxSteps)
    \/ ClearClick(MaxSteps)
    \/ ItemClick(MaxSteps)
    \/ PageLoad(MaxSteps)
    \/ StorageFills(MaxSteps)

SpecConverter == InitConverter /\ [][NextConverter]_vars

(***************************************************************************)
(* The converter page open in two tabs of one browser: each tab has its    *)
(* own OKLCHConverter and ColorHistory, the two share the storage item.    *)
(* The tab the user works in is the one `history`, `historyList` and       *)
(* `fields` describe.                                                      *)
(***************************************************************************)
Tab(list, shown, f) == [history |-> list, historyList |-> shown, fields |-> f]

\* both tabs were loaded while nothing was stored
InitTabs ==
    /\ pc = "page"
    /\ arg = ""
    /\ ret = Pending
    /\ generated = Pending
    /\ reparsed = Pending
    /\ NoManager
    /\ history = loadHistory(NoItem)
    /\ historyList = renderHistory(history)
    /\ storage = NoItem
    /\ saved = TRUE
    /\ storageFull = FALSE
    /\ fields = [DefaultFields EXCEPT !.hex = DefaultHex]
    /\ clock = 0
    /\ steps = 0
    /\ event = [op |-> "load", text |-> "", before |-> <<>>, added |-> FALSE,
                hex |-> DefaultHex]
    /\ otherTab = Tab(history, historyList, fields)
    /\ NoPalette

\* the user goes to the other tab
SwitchTab(most) ==
    /\ otherTab # Pending
    /\ Counted(FALSE, 0, most)
    /\ history' = otherTab.history
    /\ historyList' = otherTab.historyList
    /\ fields' = otherTab.fields
    /\ otherTab' = Tab(history, historyList, fields)
    /\ UNCHANGED <<storage, saved, storageFull, clock, event>>
    /\ UNCHANGED <<callVars, managerVars, paletteVars>>

NextTabs ==
    \/ HexInput(FewColors, MaxSteps)
    \/ CopyHex(MaxSteps)
    \/ PageLoad(MaxSteps)
    \/ SwitchTab(MaxSteps)

SpecTabs == InitTabs /\ [][NextTabs]_vars

(***************************************************************************)
(* The converter page with the default colours among the texts typed into  *)
(* the hex input.                                                          *)
(***************************************************************************)
DefaultTexts == {"#000000", "B8A9DB", NewColour(clock + 1)}

NextDefaults ==
    \/ HexInputOf(DefaultTexts, FewColors, MaxSteps)
    \/ FieldInput(MaxSteps)
    \/ CopyHex(MaxSteps)
    \/ ItemClick(MaxSteps)
    \/ PageLoad(MaxSteps)

SpecDefaults == InitConverter /\ [][NextDefaults]_vars

(***************************************************************************)
(* Properties of the colour history.                                       *)
(***************************************************************************)
\* addColor has just run
JustAdded == event.added

\* the hex is in the list, whatever the case of its letters
Holds(list, hex) == \E i \in 1..Len(list) : ToLowerCase(list[i].hex) = ToLowerCase(hex)

\* C11: the history never holds more than 20 entries, and an addColor of a
\* hex that is not on a list of 20 removes the last entry of the list and no
\* other
C11_AtMostTwenty ==
    /\ Len(history) <= 20
    /\ (JustAdded /\ Len(event.before) = 20 /\ ~Holds(event.before, event.hex))
           => /\ Len(history) = 20
              /\ Tail(history) = SubSeq(event.before, 1, 19)

\* a new hex has been added to a list of 20
C11_Witness ==
    JustAdded /\ Len(event.before) = 20 /\ ~Holds(event.before, event.hex)

\* how often the hex is in the list
Count(list, hex) ==
    Cardinality({i \in 1..Len(list) : ToLowerCase(list[i].hex) = ToLowerCase(hex)})

\* C12: no two entries of the history have the same hex up to the case of
\* the letters, and a hex that is added again, in any case, is in the list
\* once
C12_NoDuplicates ==
    /\ \A i, j \in 1..Len(history) :
           i # j => ToLowerCase(history[i].hex) # ToLowerCase(history[j].hex)
    /\ (JustAdded /\ Holds(event.before, event.hex))
           => /\ Count(history, event.hex) = 1
              /\ Len(history) = Len(event.before)

\* a hex of the list has been added again with other letters
C12_Witness ==
    /\ JustAdded
    /\ Holds(event.before, event.hex)
    /\ \A i \in 1..Len(event.before) : event.before[i].hex # event.hex
    /\ Len(event.before) > 1

\* where the entry is in the list, 0 when it is not there
PositionIn(list, item) ==
    IF \E k \in 1..Len(list) : list[k] = item
    THEN CHOOSE k \in 1..Len(list) : list[k] = item
    ELSE 0

\* C13: right after addColor(hex, ...) the first entry is the hex in lower
\* case, and the entries after it are entries the list had before, in the
\* order they had
C13_MostRecentFirst ==
    JustAdded
        => /\ history[1].hex = ToLowerCase(event.hex)
           /\ \A i \in 2..Len(history) : PositionIn(event.before, history[i]) > 0
           /\ \A i, j \in 2..Len(history) :
                  i < j => PositionIn(event.before, history[i])
                               < PositionIn(event.before, history[j])
           /\ \A k \in 1..Len(event.before) :
                  (k < 20 /\ ToLowerCase(event.before[k].hex) # ToLowerCase(event.hex))
                      => PositionIn(history, event.before[k]) > 1

\* an entry that was not the first has been added again, in upper case
C13_Witness ==
    /\ JustAdded
    /\ Len(event.before) > 2
    /\ ToLowerCase(event.before[Len(event.before)].hex) = ToLowerCase(event.hex)
    /\ event.hex # ToLowerCase(event.hex)

\* C14: the list a new ColorHistory loads is the list the page before held,
\* when that page's last write went through
C14_LoadsTheSameList ==
    (event.op = "load" /\ saved) => history = event.before

\* C15: a click on an item puts the hex and the L, C and H of its entry into
\* the inputs, and leaves the list and the stored item as they were
ClickedEntry == history[ToNat(event.text)]

C15_ClickLoadsEntry ==
    event.op = "applyColor"
        => /\ fields.hex = ClickedEntry.hex
           /\ parseFloat(fields.l) = parseFloat(ValueText(ClickedEntry.l))
           /\ parseFloat(fields.c) = parseFloat(ValueText(ClickedEntry.c))
           /\ parseFloat(fields.h) = parseFloat(ValueText(ClickedEntry.h))
           /\ history = event.before
           /\ historyList = renderHistory(event.before)
           /\ saved => loadHistory(storage) = Item(event.before).json

\* C16: clearHistory leaves the history empty, the stored list empty and
\* the list element with the empty state and no item
C16_ClearEmpties ==
    event.op = "clearHistory"
        => /\ history = <<>>
           /\ loadHistory(storage) = <<>>
           /\ historyList = [k |-> "history-empty"]

\* a list that had been stored has been cleared
C16_Witness ==
    /\ event.op = "clearHistory"
    /\ Len(event.before) > 1
    /\ saved

(***************************************************************************)
(* PaletteGenerator (palette-generator.js): the harmony algorithms and the *)
(* colour ramp.  Arithmetic on numbers is exact; a quotient is kept to     *)
(* four decimals.                                                          *)
(***************************************************************************)
\* x in units of 10^-s, for s not below the scale of x
Units(x, s) == x.sign * x.num * Pow10(s - x.scale)

Signed(v, s) == Decimal(IF v < 0 THEN -1 ELSE 1, Abs(v), s)

Wider(x, y) == IF x.scale > y.scale THEN x.scale ELSE y.scale

IsNumber(x) == x # Undefined /\ x # NaN /\ x # JNull

\* x + y; undefined or NaN on either side gives NaN
Plus(x, y) ==
    IF ~IsNumber(x) \/ ~IsNumber(y) THEN NaN
    ELSE Signed(Units(x, Wider(x, y)) + Units(y, Wider(x, y)), Wider(x, y))

Less(x, y) == Units(x, Wider(x, y)) < Units(y, Wider(x, y))

\* Math.max and Math.min on two numbers
MathMax(x, y) == IF x = NaN \/ y = NaN THEN NaN ELSE IF Less(x, y) THEN y ELSE x

MathMin(x, y) == IF x = NaN \/ y = NaN THEN NaN ELSE IF Less(y, x) THEN y ELSE x

\* x % n for a whole n: the remainder has the sign of x
Remainder(x, n) ==
    IF x = NaN THEN NaN
    ELSE Decimal(x.sign, x.num % (n * Pow10(x.scale)), x.scale)

Whole(n) == Signed(n, 0)

Hundredths(n) == Signed(n, 2)

\* { ...oklch, l: l }
WithL(oklch, l) == [oklch EXCEPT !.l = l]

\* { ...oklch, h: h }
WithH(oklch, h) == [oklch EXCEPT !.h = h]

\* (oklch.h + degrees) % 360
Turned(oklch, degrees) == WithH(oklch, Remainder(Plus(oklch.h, Whole(degrees)), 360))

\* Math.max(0.1, oklch.l + offset) for the darker variants
Darker(oklch, offset) ==
    WithL(oklch, MathMax(Hundredths(10), Plus(oklch.l, Hundredths(offset))))

\* Math.min(0.95, oklch.l + offset) for the lighter variants
Lighter(oklch, offset) ==
    WithL(oklch, MathMin(Hundredths(95), Plus(oklch.l, Hundredths(offset))))

monochromatic(oklch) ==
    <<Darker(oklch, -30), Darker(oklch, -15), oklch, Lighter(oklch, 15),
      Lighter(oklch, 30)>>

complementary(oklch) == <<oklch, Turned(oklch, 180)>>

triadic(oklch) == <<oklch, Turned(oklch, 120), Turned(oklch, 240)>>

tetradic(oklch) ==
    <<oklch, Turned(oklch, 90), Turned(oklch, 180), Turned(oklch, 270)>>

\* (oklch.h - degrees + 360) % 360
TurnedBack(oklch, degrees) ==
    WithH(oklch, Remainder(Plus(Plus(oklch.h, Whole(-degrees)), Whole(360)), 360))

analogous(oklch) ==
    <<TurnedBack(oklch, 30), TurnedBack(oklch, 15), oklch, Turned(oklch, 15),
      Turned(oklch, 30)>>

splitComplementary(oklch) == <<oklch, Turned(oklch, 150), Turned(oklch, 210)>>

HarmonyKinds ==
    {"monochromatic", "complementary", "triadic", "tetradic", "analogous",
     "split-complementary"}

\* the algorithm run without the test of what culori.oklch returned
harmonyUnchecked(kind, oklch) ==
    IF oklch = Undefined THEN <<oklch>>
    ELSE IF kind = "monochromatic" THEN monochromatic(oklch)
    ELSE IF kind = "complementary" THEN complementary(oklch)
    ELSE IF kind = "triadic" THEN triadic(oklch)
    ELSE IF kind = "tetradic" THEN tetradic(oklch)
    ELSE IF kind = "analogous" THEN analogous(oklch)
    ELSE splitComplementary(oklch)

\* harmonyAlgorithms[kind](baseColor), for a base colour that culori.oklch
\* turns into `oklch` (undefined when it does not parse)
harmony(kind, oklch) ==
    IF oklch = Undefined THEN <<>>
    ELSE IF kind = "monochromatic" THEN monochromatic(oklch)
    ELSE IF kind = "complementary" THEN complementary(oklch)
    ELSE IF kind = "triadic" THEN triadic(oklch)
    ELSE IF kind = "tetradic" THEN tetradic(oklch)
    ELSE IF kind = "analogous" THEN analogous(oklch)
    ELSE splitComplementary(oklch)

(***************************************************************************)
(* PaletteGenerator.generateColorRamp                                      *)
(***************************************************************************)
RampSteps == <<50, 100, 200, 300, 400, 500, 600, 700, 800, 900>>

Times(x, y) == Signed(x.sign * x.num * y.sign * y.num, x.scale + y.scale)

\* x / y for a positive y, to four decimals
Quotient(x, y) ==
    Signed((2 * Units(x, Wider(x, y)) * 10000 + Units(y, Wider(x, y)))
               \div (2 * Units(y, Wider(x, y))), 4)

\* 1 - (step - 50) / 900
RampLightness(step) ==
    Plus(Whole(1), Times(Whole(-1), Quotient(Whole(step - 50), Whole(900))))

\* the lightness clamped at 0.9 on the light side
AdjustedLightnessLow(lightness) ==
    MathMax(Hundredths(5), MathMin(Hundredths(90), lightness))

\* Math.max(0.05, Math.min(0.95, lightness))
AdjustedLightness(lightness) ==
    MathMax(Hundredths(5), MathMin(Hundredths(95), lightness))

\* the chroma, lowered for very light and very dark colours
AdjustedChroma(chroma, adjustedLightness) ==
    IF Less(Hundredths(80), adjustedLightness)
    THEN Times(chroma, Times(Quotient(Hundredths(80), adjustedLightness),
                             Hundredths(70)))
    ELSE IF Less(adjustedLightness, Hundredths(20))
    THEN Times(chroma, Times(Quotient(adjustedLightness, Hundredths(20)),
                             Hundredths(80)))
    ELSE chroma

RampColor(oklch, adjustedLightness, adjustedChroma) ==
    [oklch EXCEPT !.l = adjustedLightness, !.c = adjustedChroma]

Stepped(step, rampColor) ==
    [step |-> step, color |-> rampColor,
     hex |-> culoriFormatHex(rampColor.l, rampColor.c, rampColor.h)]

RampOf(oklch, step, adjustedLightness) ==
    Stepped(step, RampColor(oklch, adjustedLightness,
                            AdjustedChroma(OrZero(oklch.c), adjustedLightness)))

\* generateColorRamp(baseColor), for a base colour that culori.oklch turns
\* into `oklch` (undefined when it does not parse)
generateColorRamp(oklch) ==
    IF oklch = Undefined THEN <<>>
    ELSE [i \in 1..Len(RampSteps) |->
             RampOf(oklch, RampSteps[i], AdjustedLightness(RampLightness(RampSteps[i])))]

(***************************************************************************)
(* What culori.oklch may return for a base colour: undefined, a colour     *)
(* with a hue in [0, 360), or a colour without chroma, which has no hue.   *)
(***************************************************************************)
LightnessParts == 20

HueParts == 8

Lightnesses ==
    {Signed((k * 10000) \div LightnessParts, 4) : k \in 0..LightnessParts}

Hues ==
    {Hundredths((k * 36000) \div HueParts) : k \in 0..(HueParts - 1)}
        \cup {Hundredths(35990)}

Chromas == {Hundredths(10), Hundredths(37)}

OklchColours ==
    [mode : {"oklch"}, l : Lightnesses, c : Chromas, h : Hues]
        \cup [mode : {"oklch"}, l : Lightnesses, c : {Whole(0)}, h : {Undefined}]

BaseColours == OklchColours \cup {Undefined}

InitHarmony ==
    /\ pc = "start"
    /\ arg \in [kind : HarmonyKinds, oklch : BaseColours]
    /\ ret = Pending
    /\ generated = Pending
    /\ reparsed = Pending
    /\ NoManager
    /\ NoConverter
    /\ NoPalette

Harmony ==
    /\ pc = "start"
    /\ ret' = [k |-> "colours", colours |-> harmony(arg.kind, arg.oklch)]
    /\ pc' = "done"
    /\ UNCHANGED <<arg, generated, reparsed, pageVars>>

NextHarmony == Harmony

SpecHarmony == InitHarmony /\ [][NextHarmony]_vars

InitRamp ==
    /\ pc = "start"
    /\ arg \in BaseColours
    /\ ret = Pending
    /\ generated = Pending
    /\ reparsed = Pending
    /\ NoManager
    /\ NoConverter
    /\ NoPalette

GenerateColorRamp ==
    /\ pc = "start"
    /\ ret' = [k |-> "ramp", ramp |-> generateColorRamp(arg)]
    /\ pc' = "done"
    /\ UNCHANGED <<arg, generated, reparsed, pageVars>>

NextRamp == GenerateColorRamp

SpecRamp == InitRamp /\ [][NextRamp]_vars

(***************************************************************************)
(* Properties of the harmonies and the ramp.                               *)
(***************************************************************************)
Arity ==
    [kind \in HarmonyKinds |->
        IF kind \in {"monochromatic", "analogous"} THEN 5
        ELSE IF kind = "complementary" THEN 2
        ELSE IF kind = "tetradic" THEN 4
        ELSE 3]

HarmonyDone == pc = "done" /\ ret.k = "colours"

\* C17: the harmony of a kind has the length of the kind (5, 2, 3, 4, 5, 3)
\* when the base colour parses, and is empty when it does not
C17_FixedArity ==
    HarmonyDone
        => Len(ret.colours) = (IF arg.oklch = Undefined THEN 0 ELSE Arity[arg.kind])

\* a tetradic harmony of a colour that parses
C17_Witness ==
    HarmonyDone /\ arg.oklch # Undefined /\ arg.kind = "tetradic"
        /\ Len(ret.colours) = 4

\* a number from 0 up to, not including, 360
IsHue(h) == IsNumber(h) /\ ~Less(h, Whole(0)) /\ Less(h, Whole(360))

\* (h + degrees) mod 360
HueAfter(h, degrees) ==
    LET sum == Units(h, 2) + 100 * degrees
    IN  Hundredths(sum % 36000)

\* C18: every colour of a harmony of a base colour that parses has a hue that
\* is a number in [0, 360); the triadic harmony has the hues h, (h + 120) mod
\* 360 and (h + 240) mod 360, in that order
C18_HuesInRange ==
    (HarmonyDone /\ arg.oklch # Undefined)
        => /\ \A i \in 1..Len(ret.colours) : IsHue(ret.colours[i].h)
           /\ arg.kind = "triadic"
                  => /\ ret.colours[1].h = arg.oklch.h
                     /\ ret.colours[2].h = HueAfter(arg.oklch.h, 120)
                     /\ ret.colours[3].h = HueAfter(arg.oklch.h, 240)

\* x clamped to [0.1, 0.95]
Clamped(x) ==
    IF Less(x, Hundredths(10)) THEN Hundredths(10)
    ELSE IF Less(Hundredths(95), x) THEN Hundredths(95)
    ELSE x

MonochromeOffsets == <<-30, -15, 0, 15, 30>>

\* C19: the monochromatic harmony has the lightnesses base - 0.3, base - 0.15,
\* base, base + 0.15 and base + 0.3, each clamped to [0.1, 0.95], and the hue
\* and chroma of the base colour
C19_ClampedLightness ==
    (HarmonyDone /\ arg.oklch # Undefined /\ arg.kind = "monochromatic")
        => /\ Len(ret.colours) = 5
           /\ \A i \in 1..5 :
                  /\ ret.colours[i].l
                         = Clamped(Plus(arg.oklch.l, Hundredths(MonochromeOffsets[i])))
                  /\ ~Less(ret.colours[i].l, Hundredths(10))
                  /\ ~Less(Hundredths(95), ret.colours[i].l)
                  /\ ret.colours[i].h = arg.oklch.h
                  /\ ret.colours[i].c = arg.oklch.c

RampDone == pc = "done" /\ ret.k = "ramp"

TenSteps ==
    /\ Len(ret.ramp) = 10
    /\ \A i \in 1..10 : ret.ramp[i].step = (IF i = 1 THEN 50 ELSE 100 * (i - 1))
    /\ \A i \in 2..10 : Less(ret.ramp[i].color.l, ret.ramp[i - 1].color.l)

\* C20 as stated: the ramp of any base colour has 10 entries, at the steps
\* 50, 100, 200, ..., 900, each darker than the one before
C20_AlwaysTen == RampDone => TenSteps

\* C20: the ramp of a base colour that parses has 10 entries, at the steps
\* 50, 100, 200, ..., 900, each darker than the one before; the ramp of a
\* base colour that does not parse is empty
C20_TenWhenParsed ==
    RampDone => IF arg = Undefined THEN ret.ramp = <<>> ELSE TenSteps

\* the ramp of a colour that parses
C20_Witness == RampDone /\ arg # Undefined /\ Len(ret.ramp) = 10

(***************************************************************************)
(* AccessibilityChecker (accessibility-checker.js).  Channels are counted  *)
(* in units of 10^-4, relative luminances in units of 10^-8 and the        *)
(* channels of a simulated colour in units of 10^-7, so that the sums and  *)
(* products of the code are exact.                                         *)
(***************************************************************************)
ChannelUnit == Pow10(4)

\* n / 255 for a byte n of a hex colour, in channel units
ByteChannel(n) == (n * 2 * ChannelUnit + 255) \div 510

\* the colours written otherwise than in hex that the checker is given:
\* one brighter than white, one whose luminance is -0.05
BrightText == "rgb(300 300 300)"

DimText == "color(srgb -0.646 -0.646 -0.646)"

\* culori.rgb: the channels of a colour text, null when it is no colour.
\* The library does not clamp what it parses.
culoriRgb(color) ==
    IF IsHexColor(color)
    THEN [r |-> ByteChannel(Channel(SixDigits(color), 1)),
          g |-> ByteChannel(Channel(SixDigits(color), 3)),
          b |-> ByteChannel(Channel(SixDigits(color), 5))]
    ELSE IF color = BrightText THEN [r |-> 11765, g |-> 11765, b |-> 11765]
    ELSE IF color = DimText THEN [r |-> -6460, g |-> -6460, b |-> -6460]
    ELSE JNull

\* Math.pow((c + 0.055) / 1.055, 2.4) at the channels above
GammaTable ==
    667 :> 56 @@ 1333 :> 160 @@ 2000 :> 331 @@ 2667 :> 578 @@ 3333 :> 908
        @@ 4000 :> 1329 @@ 4667 :> 1845 @@ 5333 :> 2462 @@ 6000 :> 3185
        @@ 6667 :> 4020 @@ 7333 :> 4969 @@ 8000 :> 6038 @@ 8667 :> 7231
        @@ 9333 :> 8550 @@ 10000 :> 10000 @@ 11765 :> 14495

\* c <= 0.03928 ? c / 12.92 : Math.pow((c + 0.055) / 1.055, 2.4)
Linear(c) == IF c <= 392 THEN (c * 100) \div 1292 ELSE GammaTable[c]

getRelativeLuminance(rgb) ==
    2126 * Linear(rgb.r) + 7152 * Linear(rgb.g) + 722 * Linear(rgb.b)

Infinity == [k |-> "infinity"]

\* x / y of two numbers, kept as the fraction
Divided(x, y) ==
    IF y = 0 THEN (IF x = 0 THEN NaN ELSE Infinity)
    ELSE [k |-> "fraction", num |-> x, den |-> y]

LighterOf(l1, l2) == IF l1 < l2 THEN l2 ELSE l1

DarkerOf(l1, l2) == IF l1 < l2 THEN l1 ELSE l2

\* 0.05 in units of luminance
Flare == 5000000

ContrastOf(l1, l2) == Divided(LighterOf(l1, l2) + Flare, DarkerOf(l1, l2) + Flare)

calculateContrastRatio(color1, color2) ==
    IF culoriRgb(color1) = JNull \/ culoriRgb(color2) = JNull THEN JNull
    ELSE ContrastOf(getRelativeLuminance(culoriRgb(color1)),
                    getRelativeLuminance(culoriRgb(color2)))

\* the rows of the matrices, in thousandths
colorBlindMatrices ==
    [protanopia |-> <<<<567, 433, 0>>, <<558, 442, 0>>, <<0, 242, 758>>>>,
     deuteranopia |-> <<<<625, 375, 0>>, <<700, 300, 0>>, <<0, 300, 700>>>>,
     tritanopia |-> <<<<950, 50, 0>>, <<0, 433, 567>>, <<0, 475, 525>>>>]

\* names every object answers to: colorBlindMatrices[type] is then a value
\* that is not a matrix, and reading matrix[0][0] throws a TypeError
InheritedNames == {"constructor", "toString"}

\* rgb.r * row[0] + rgb.g * row[1] + rgb.b * row[2]
Transformed(rgb, row) == rgb.r * row[1] + rgb.g * row[2] + rgb.b * row[3]

OneChannel == 1000 * ChannelUnit

Unclamped(c) == c

\* Math.max(0, Math.min(1, c))
Clamp01(c) == IF c > OneChannel THEN OneChannel ELSE IF c < 0 THEN 0 ELSE c

ClampedChannels(rgb, matrix) ==
    [r |-> Clamp01(Transformed(rgb, matrix[1])),
     g |-> Clamp01(Transformed(rgb, matrix[2])),
     b |-> Clamp01(Transformed(rgb, matrix[3]))]

\* the byte formatHex writes for a channel: the library cuts the channel to
\* [0, 1] itself and rounds c * 255
ByteOf(c) ==
    IF c > OneChannel THEN 255
    ELSE IF c < 0 THEN 0
    ELSE (c * 51 + 100 * ChannelUnit) \div (200 * ChannelUnit)

\* culori.formatHex on an RGB colour
culoriFormatHexRgb(rgb) == "#" \o Hex2(ByteOf(rgb.r)) \o Hex2(ByteOf(rgb.g)) \o Hex2(ByteOf(rgb.b))

Answer(value, channels) == [k |-> "returned", value |-> value, channels |-> channels]

\* the body of the try block of simulateColorBlindness
Simulated(color, type) ==
    IF culoriRgb(color) = JNull THEN Answer(color, Undefined)
    ELSE IF type \in InheritedNames THEN [k |-> "thrown", error |-> "TypeError"]
    ELSE IF type \notin DOMAIN colorBlindMatrices THEN Answer(color, Undefined)
    ELSE Answer(culoriFormatHexRgb(ClampedChannels(culoriRgb(color), colorBlindMatrices[type])),
                  ClampedChannels(culoriRgb(color), colorBlindMatrices[type]))

simulateColorBlindness(color, type) ==
    IF Simulated(color, type).k = "thrown" THEN Answer(color, Undefined)
    ELSE Simulated(color, type)

(***************************************************************************)
(* The checker's two functions on the colours of a bounded set.            *)
(***************************************************************************)
ChannelSteps == 2

CheckerDigits == {Ch(HexDigits, ((k * 15) \div ChannelSteps) + 1) : k \in 0..ChannelSteps}

CheckerColors ==
    {"#" \o r \o g \o b : r \in CheckerDigits, g \in CheckerDigits, b \in CheckerDigits}
        \cup {"#000000", "#ffffff", "zz", BrightText, DimText}

CheckerTypes == DOMAIN colorBlindMatrices \cup InheritedNames \cup {"achromatopsia"}

InitChecker ==
    /\ pc = "start"
    /\ arg \in [color1 : CheckerColors, color2 : CheckerColors, type : CheckerTypes]
    /\ ret = Pending
    /\ generated = Pending
    /\ reparsed = Pending
    /\ NoManager
    /\ NoConverter
    /\ NoPalette

CalculateContrastRatio ==
    /\ pc = "start"
    /\ ret' = [k |-> "ratio", value |-> calculateContrastRatio(arg.color1, arg.color2)]
    /\ pc' = "done"
    /\ UNCHANGED <<arg, generated, reparsed, pageVars>>

SimulateColorBlindness ==
    /\ pc = "start"
    /\ ret' = simulateColorBlindness(arg.color1, arg.type)
    /\ pc' = "done"
    /\ UNCHANGED <<arg, generated, reparsed, pageVars>>

NextChecker == CalculateContrastRatio \/ SimulateColorBlindness

SpecChecker == InitChecker /\ [][NextChecker]_vars

(***************************************************************************)
(* Properties of the accessibility checker.                                *)
(***************************************************************************)
ContrastDone == pc = "done" /\ ret.k = "ratio"

IsFraction(x) == x # JNull /\ x # NaN /\ x # Infinity

\* the fraction x is the whole number n
Equals(x, n) == IsFraction(x) /\ x.num % n = 0 /\ x.num \div n = x.den

\* the fraction x is at most the whole number n
AtMost(x, n) ==
    \/ x.den < 0
    \/ x.num \div n < x.den
    \/ (x.num \div n = x.den /\ x.num % n = 0)

\* C21: calculateContrastRatio(c, c) is 1.0 for every colour c that parses
\* to an RGB triple.
C21_SameColourIsOne ==
    (ContrastDone /\ arg.color1 = arg.color2 /\ culoriRgb(arg.color1) # JNull)
        => Equals(ret.value, 1)

\* C22: calculateContrastRatio("#000000", "#ffffff") is 21.0, and no pair
\* of colours has a greater ratio.
C22_BlackOnWhiteIsMost ==
    ContrastDone =>
        /\ (arg.color1 = "#000000" /\ arg.color2 = "#ffffff") => Equals(ret.value, 21)
        /\ IsFraction(ret.value) => AtMost(ret.value, 21)

SimulateDone == pc = "done" /\ ret.k = "returned"

ValidSimulation ==
    culoriRgb(arg.color1) # JNull /\ arg.type \in DOMAIN colorBlindMatrices

InUnit(c) == 0 <= c /\ c <= OneChannel

\* C23: simulateColorBlindness returns the colour text it was given when
\* the kind is not one of the three or the colour does not parse, it never
\* throws, and for a kind of the three and a colour that parses every
\* channel handed to formatHex lies in [0, 1].
C23_SimulationFallsBack ==
    (pc = "done" /\ ret.k # "ratio") =>
        /\ ret.k = "returned"
        /\ ~ValidSimulation => ret.value = arg.color1
        /\ ValidSimulation =>
               /\ InUnit(ret.channels.r)
               /\ InUnit(ret.channels.g)
               /\ InUnit(ret.channels.b)

\* a colour brighter than white was simulated and its red channel cut to 1
C23_Witness ==
    /\ SimulateDone
    /\ ValidSimulation
    /\ Transformed(culoriRgb(arg.color1), colorBlindMatrices[arg.type][1]) > OneChannel
    /\ ret.channels.r = OneChannel

(***************************************************************************)
(* Properties of the hex input.                                            *)
(***************************************************************************)
\* three or six hex digits, with or without the '#'
AcceptedHex(text) == IsHexColor(NormalizedHex(text))

\* '#' and the six digits in lower case
LowerSixDigits(text) == "#" \o ToLowerCase(SixDigits(NormalizedHex(text)))

\* C24: a hex of three or six digits, with or without '#', is accepted, what
\* hexToOklch returns and the converter writes to the hex input is '#' and
\* the six digits in lower case; any other text gives null and the handler
\* changes nothing.
C24_HexNormalized ==
    event.op = "convertFromHex" =>
        IF AcceptedHex(event.text)
        THEN /\ hexToOklch(event.text) # JNull
             /\ hexToOklch(event.text).hex = LowerSixDigits(event.text)
             /\ fields.hex = LowerSixDigits(event.text)
        ELSE /\ hexToOklch(event.text) = JNull
             /\ history = event.before
             /\ fields.hex = event.text

(***************************************************************************)
(* Properties of the manager's validation status.                          *)
(***************************************************************************)
ParseTokensRan == lastOp \in {"parseTokens", "loadExample"}

\* C25: whenever the status is 'invalid' after parseTokens ran, parsedTokens
\* is empty and the Export All button is disabled.
C25_InvalidMeansEmpty ==
    (ParseTokensRan /\ validationStatus.status = "invalid") =>
        /\ parsedTokens = <<>>
        /\ exportDisabled

(***************************************************************************)
(* Properties of the history shared by two tabs.                           *)
(***************************************************************************)
Persisted(store) == {loadHistory(store)[i] : i \in 1..Len(loadHistory(store))}

\* C26: the list persisted after an addColor holds every entry persisted
\* just before it, but the entries with the hex added and, when the list
\* is full, the entries the cap cut off.
C26_NoEntryLost ==
    [][clock' # clock =>
           \A item \in Persisted(storage) :
               \/ item \in Persisted(storage')
               \/ item.hex = ToLowerCase(fields'.hex)
               \/ Len(loadHistory(storage')) = maxItems]_vars

(***************************************************************************)
(* Properties of the default colours.                                      *)
(***************************************************************************)
DefaultColours == {"#000000", DefaultHex}

\* C27: the history holds no entry whose hex is #000000 or #b8a9db.
C27_DefaultsNeverSaved ==
    \A i \in 1..Len(history) : history[i].hex \notin DefaultColours

(***************************************************************************)
(* PaletteGenerator: the page (palette-generator.js).  The css tab of the  *)
(* export panel is the active one.                                         *)
(***************************************************************************)
\* culori.oklch on the texts of the base colour input: a hex with or
\* without '#', the colour name red, or a text that is no colour
culoriOklchText(text) ==
    IF IsHexColor(NormalizedHex(text)) THEN culoriOklch(NormalizedHex(text))
    ELSE IF text = "red"
    THEN [l |-> Signed(628, 3), c |-> Signed(2577, 4), h |-> Hundredths(2923)]
    ELSE Undefined

InvalidColorMessage == "Please enter a valid color (hex, hsl, rgb, etc.)"

FormatHexOf(color) == culoriFormatHex(color.l, color.c, color.h)

validateColor(colorInput) ==
    IF hexToOklch(colorInput) # JNull
    THEN [valid |-> TRUE, hex |-> hexToOklch(colorInput).hex]
    ELSE IF culoriOklchText(colorInput) # Undefined
    THEN [valid |-> TRUE, hex |-> FormatHexOf(culoriOklchText(colorInput))]
    ELSE [valid |-> FALSE, message |-> InvalidColorMessage]

\* one entry of currentPalette
PaletteColor(color) ==
    [hex |-> FormatHexOf(color), oklch |-> color,
     ramp |-> generateColorRamp(culoriOklch(FormatHexOf(color)))]

PaletteOf(harmonyColors) ==
    [i \in 1..Len(harmonyColors) |-> PaletteColor(harmonyColors[i])]

CssVariable(colorIndex, rampColor) ==
    "  --color-" \o NatToString(colorIndex) \o "-" \o NatToString(rampColor.step)
        \o ": " \o rampColor.hex \o ";\n"

RECURSIVE RampLines(_, _, _)
RampLines(ramp, colorIndex, k) ==
    IF k > Len(ramp) THEN ""
    ELSE CssVariable(colorIndex, ramp[k]) \o RampLines(ramp, colorIndex, k + 1)

RECURSIVE PaletteLines(_, _)
PaletteLines(palette, i) ==
    IF i > Len(palette) THEN ""
    ELSE RampLines(palette[i].ramp, i, 1) \o PaletteLines(palette, i + 1)

\* exportFormats.css
ExportCss(palette) == ":root {\n" \o PaletteLines(palette, 1) \o "}"

\* updateExport, for the text the export panel shows now
updateExport(palette, shown) == IF Len(palette) = 0 THEN shown ELSE ExportCss(palette)

Alerted(message) == paletteEvent' = [k |-> "alert", message |-> message]

\* the return after validation failed
ValidationFailed(message) ==
    /\ Alerted(message)
    /\ UNCHANGED <<currentPalette, exportCode>>

\* a catch block that also drops the palette
GenerationFailedCleared ==
    /\ Alerted("Failed to generate palette. Please try a different color.")
    /\ currentPalette' = <<>>
    /\ UNCHANGED exportCode

\* the catch block of generatePalette
GenerationFailed ==
    /\ Alerted("Failed to generate palette. Please try a different color.")
    /\ UNCHANGED <<currentPalette, exportCode>>

\* the end of the try block
PaletteGenerated(harmonyColors) ==
    /\ currentPalette' = PaletteOf(harmonyColors)
    /\ exportCode' = updateExport(currentPalette', exportCode)
    /\ paletteEvent' = [k |-> "generated"]

\* the try block: a kind without an algorithm makes the call throw a
\* TypeError, an empty harmony makes the code throw an Error
Generated(color, kind) ==
    IF kind \notin HarmonyKinds THEN GenerationFailed
    ELSE IF Len(harmony(kind, culoriOklchText(color))) = 0 THEN GenerationFailed
    ELSE PaletteGenerated(harmony(kind, culoriOklchText(color)))

\* generatePalette with the inputs holding `color` and `kind`
generatePalette(color, kind) ==
    IF ~validateColor(Trim(color)).valid
    THEN ValidationFailed(validateColor(Trim(color)).message)
    ELSE Generated(Trim(color), kind)

PaletteTexts == {"#ab0011", " ab0 ", "#888", "red", "zz", ""}

\* the values the select may hold: the six kinds, none selected, and a
\* value that names no algorithm
SelectValues == HarmonyKinds \cup {"", "square"}

OtherThanPalette == UNCHANGED <<callVars, managerVars, converterVars>>

\* the page before the constructor's call of generatePalette
InitPalette ==
    /\ pc = "constructor"
    /\ arg = ""
    /\ ret = Pending
    /\ generated = Pending
    /\ reparsed = Pending
    /\ NoManager
    /\ NoConverter
    /\ baseColor \in PaletteTexts
    /\ harmonyType \in SelectValues
    /\ currentPalette = <<>>
    /\ exportCode = ""
    /\ paletteEvent = Pending

\* the last statement of the constructor
Construct ==
    /\ pc = "constructor"
    /\ pc' = "page"
    /\ generatePalette(baseColor, harmonyType)
    /\ UNCHANGED <<baseColor, harmonyType, arg, ret, generated, reparsed>>
    /\ UNCHANGED <<managerVars, converterVars>>

\* 'change' on the base colour input
BaseColorChange ==
    /\ pc = "page"
    /\ \E text \in PaletteTexts :
           /\ baseColor' = text
           /\ generatePalette(text, harmonyType)
    /\ UNCHANGED harmonyType
    /\ OtherThanPalette

\* 'change' on the select
HarmonyChange ==
    /\ pc = "page"
    /\ \E kind \in SelectValues :
           /\ harmonyType' = kind
           /\ generatePalette(baseColor, kind)
    /\ UNCHANGED baseColor
    /\ OtherThanPalette

\* click on the generate button
GenerateClick ==
    /\ pc = "page"
    /\ generatePalette(baseColor, harmonyType)
    /\ UNCHANGED <<baseColor, harmonyType>>
    /\ OtherThanPalette

NextPalette == Construct \/ BaseColorChange \/ HarmonyChange \/ GenerateClick

SpecPalette == InitPalette /\ [][NextPalette]_vars

(***************************************************************************)
(* Properties of generatePalette.                                          *)
(***************************************************************************)
\* the base colour fails validation or the kind has no algorithm
NoPaletteFor(color, kind) ==
    ~validateColor(Trim(color)).valid \/ kind \notin HarmonyKinds

\* C28: generatePalette with a base colour that fails validation, or a kind
\* without an algorithm, leaves currentPalette and the export text as they
\* were, and ends with an alert, not an exception.
C28_FailureKeepsPalette ==
    [][(pc' = "page" /\ NoPaletteFor(baseColor', harmonyType'))
           => /\ currentPalette' = currentPalette
              /\ exportCode' = exportCode
              /\ paletteEvent'.k = "alert"]_vars

\* a palette was generated and a later call that failed left it shown
C28_Witness ==
    /\ pc = "page"
    /\ NoPaletteFor(baseColor, harmonyType)
    /\ paletteEvent.k = "alert"
    /\ Len(currentPalette) > 0
    /\ exportCode = ExportCss(currentPalette)

(***************************************************************************)
(* The js generator on token sets whose names differ in `.`, `_` and `-`   *)
(* only.                                                                   *)
(***************************************************************************)
JsNames == {"a.b", "a_b", "a-b", "c"}

JsValues == {JString("#fff"), JString("1rem")}

JsToken(name, value) == <<name, Token(value, JString("string"), Split(name, "."))>>

\* token sets of one, two and three tokens, the names distinct
JsTokenSets ==
    {<<JsToken(n, v)>> : n \in JsNames, v \in JsValues}
        \cup {<<JsToken(n[1], v[1]), JsToken(n[2], v[2])>> :
                 n \in {x \in JsNames \X JsNames : x[1] # x[2]},
                 v \in JsValues \X JsValues}
        \cup {<<JsToken(n[1], v), JsToken(n[2], v), JsToken(n[3], v)>> :
                 n \in {x \in JsNames \X JsNames \X JsNames :
                           x[1] # x[2] /\ x[1] # x[3] /\ x[2] # x[3]},
                 v \in JsValues}

InitJs ==
    /\ pc = "start"
    /\ arg \in [format : {"js"}, tokens : JsTokenSets]
    /\ ret = Pending
    /\ generated = Pending
    /\ reparsed = Pending
    /\ NoManager
    /\ NoConverter
    /\ NoPalette

SpecJs == InitJs /\ [][NextGenerate]_vars

\* the properties of the object in the text the js generator returns: each
\* is on a line of its own, two spaces in
PropertyCount(text) == Occurrences(text, "\n  \"")

\* C29: the object the js generator exports has as many keys as the token
\* set has tokens.
C29_OneKeyPerToken ==
    (pc = "done" /\ arg.format = "js") =>
        PropertyCount(ret.text) = Len(arg.tokens)

(***************************************************************************)
(* ColorUtils.clampOklch on numbers inside, below and above the ranges.    *)
(***************************************************************************)
\* isNaN(h) ? 0 : (h || 0) % 360
ClampedHue(h) == IF ~IsNumber(h) THEN Whole(0) ELSE Remainder(OrZero(h), 360)

clampOklch(l, c, h) ==
    [l |-> MathMax(Whole(0), MathMin(Whole(1), OrZero(l))),
     c |-> MathMax(Whole(0), MathMin(Signed(4, 1), OrZero(c))),
     h |-> ClampedHue(h)]

ClampLightnesses == {Signed(-5, 1), Whole(0), Signed(5, 1), Whole(1), Signed(15, 1), NaN}

ClampChromas == {Signed(-1, 1), Whole(0), Signed(2, 1), Signed(4, 1), Signed(5, 1), NaN}

ClampHues ==
    {Whole(-370), Whole(-10), Whole(0), Whole(180), Signed(3599, 1), Whole(360),
     Whole(370), Signed(7255, 1), NaN}

InitClamp ==
    /\ pc = "start"
    /\ arg \in [l : ClampLightnesses, c : ClampChromas, h : ClampHues]
    /\ ret = Pending
    /\ generated = Pending
    /\ reparsed = Pending
    /\ NoManager
    /\ NoConverter
    /\ NoPalette

ClampOklch ==
    /\ pc = "start"
    /\ ret' = [k |-> "clamped", oklch |-> clampOklch(arg.l, arg.c, arg.h)]
    /\ pc' = "done"
    /\ UNCHANGED <<arg, generated, reparsed, pageVars>>

NextClamp == ClampOklch

SpecClamp == InitClamp /\ [][NextClamp]_vars

Within(x, low, high) == IsNumber(x) /\ ~Less(x, low) /\ ~Less(high, x)

\* C30: clampOklch returns l in [0, 1], c in [0, 0.4] and h in [0, 360) for
\* every numeric input.
C30_ClampedRanges ==
    (pc = "done" /\ ret.k = "clamped") =>
        /\ Within(ret.oklch.l, Whole(0), Whole(1))
        /\ Within(ret.oklch.c, Whole(0), Signed(4, 1))
        /\ Within(ret.oklch.h, Whole(0), Whole(360))
        /\ ret.oklch.h # Whole(360)

====
